---- MODULE Spec2Model ----
(***************************************************************************)
(* A model of the ClipScutter automation: the CSV descriptor source        *)
(* (csv_reader.py), the time helpers, the element locator, safe_click,     *)
(* perform_login, input_youtube_url and create_clip (web_automation.py),   *)
(* the download naming (download_clips.py), the selection of the           *)
(* configuration (config.py) and the batch orchestrator                    *)
(* (run_automation.py).                                                    *)
(*                                                                         *)
(* Strings are modelled as tuples of atoms (one-character strings for      *)
(* time strings, short tokens for URLs), so that split, strip, isdigit,    *)
(* int, substring and zero-padded formatting are computed, not assumed.    *)
(* Python's None is the empty tuple where the value is otherwise a URL.    *)
(***************************************************************************)
EXTENDS Integers, Sequences, FiniteSets, TLC

VARIABLES
    \* --- ClipScutterRunner.run / process_all_clips ---
    pc,             \* position of run()
    csv_clips,      \* what CSVReader.read_csv returns for the input file
    grouped,        \* csv_data['grouped_clips'], a dict in insertion order
    gi,             \* index of the group the outer loop is at
    ci,             \* index (enumerate(clips, 1)) of the clip the inner loop is at
    current_url,    \* ClipScutterWebAutomation.current_url
    stats,          \* ClipScutterRunner.stats
    calls,          \* history: one record per create_clip invocation
    submits,        \* history: one record per input_youtube_url invocation
    resets,         \* history: number of reset_for_new_video invocations
    login_attempts, \* history: number of web_automation.perform_login invocations
    login_failed,   \* history: perform_login reported failure
    download_runs,  \* history: number of downloader.download_all_clips invocations
    process_result, \* what process_all_clips returned ("none" before it returns)
    exit_code,      \* what run() returns (-1 before it returns)
    exit_path,      \* history: which return or handler of run() set exit_code
    download_only,  \* args.download_only
    driver,         \* self.driver is set (a browser session exists)
    finale,         \* history: what run's finally block has done so far
    \* --- CSVReader ---
    csv_file,       \* the rows of the input file, in file order
    csv_pc,         \* position of the read_csv / group_clips_by_url calls
    row_num,        \* enumerate(csv_reader, 1) position of the next row
    clips,          \* the local list `clips`, then self.clips
    invalid_rows,   \* the local list `invalid_rows` (row numbers)
    grouped_clips,  \* self.grouped_clips
    first_grouped,  \* history: what the first group_clips_by_url call returned
    \* --- convert_time_to_seconds / format_seconds_to_time ---
    t_pc, t_in, t_secs, t_fmt, t_secs2,
    \* --- find_element_with_multiple_selectors ---
    loc_doc,        \* per candidate selector, what the document holds for it
    loc_idx,        \* index of the candidate the for loop is at
    loc_queried,    \* history: the candidates queried so far
    loc_result,     \* "pending", "None", "raise" or [element |-> index]
    \* --- safe_click ---
    click_env,      \* per attempt, what the page does to the click and its fallbacks
    click_attempt,  \* `attempt` of `for attempt in range(max_attempts)`
    click_log,      \* history: per attempt made, what completed without error
    click_result,   \* "pending", "True" or "False"
    \* --- ClipDownloader.download_clip_via_url ---
    dl_dir,         \* the file names that exist in self.download_dir
    dl_info,        \* clip_info and what the HTTP request gives
    dl_pc,          \* position of download_clip_via_url
    dl_filename,    \* the local `filename`
    dl_counter,     \* the local `counter`
    dl_written,     \* history: the names opened for writing, with the directory then
    dl_result,      \* "pending", "True" or "False"
    \* --- config.CONFIG and run_automation.main ---
    cfg_pc,         \* position of the program: import, parse, set, construct, running
    cfg_environ,    \* os.environ['CLIPSCUTTER_ENV'] (<<"unset">> when absent)
    cfg_argv,       \* the --config-env value on the command line (<<"absent">> if none)
    cfg_args,       \* args.config_env
    CONFIG,         \* config.CONFIG, bound when config is imported
    runner_config,  \* ClipScutterRunner.config
    \* --- ClipScutterWebAutomation.create_clip, step by step ---
    cc_env,         \* the navigate_to_controls argument and what the page shows
    cc_pc,          \* position of create_clip
    cc_log,         \* history: what create_clip did to the page, in order
    cc_result,      \* "pending", "True" or "False"
    \* --- ClipScutterWebAutomation.perform_login, step by step ---
    lg_env,         \* what the login page shows
    lg_pc,          \* position of perform_login
    lg_log,         \* history: what perform_login did and observed, in order
    lg_result,      \* "pending", "True" or "False"
    \* --- ClipScutterWebAutomation.input_youtube_url, step by step ---
    iu_env,         \* what the page shows to input_youtube_url
    iu_submit,      \* what becomes of the submit button
    iu_url,         \* the argument youtube_url
    iu_before,      \* self.current_url when input_youtube_url is called
    iu_current_url, \* self.current_url
    iu_pc,          \* position of input_youtube_url
    iu_log,         \* history: what input_youtube_url did and observed
    iu_result,      \* "pending", "True" or "False"
    \* --- ClipScutterRunner.process_all_clips, the navigation of each group ---
    nav_urls,         \* the keys of grouped_clips, in order
    nav_gi,           \* the group the loop is at
    nav_current_url,  \* web_automation.current_url
    nav_pc,           \* position of process_all_clips
    nav_before,       \* history: current_url at the top of each iteration
    nav_log,          \* history: resets, URL submissions and clip loops, in order
    \* --- process_all_clips with every retry loop and poll of create_clip unrolled ---
    tm_sizes,      \* len(clips) of each group of grouped_clips
    tm_gi,         \* the group the outer loop is at
    tm_ci,         \* the clip the inner loop is at
    tm_pc,         \* the loop that is running
    tm_k,          \* iterations the running loop has made
    tm_elapsed,    \* tenths of a second since the poll's start_time
    tm_timed_out,  \* history: some poll ran until its timeout
    \* --- ClipScutterRunner.run with a KeyboardInterrupt raised during clip creation ---
    ki_n,             \* the number of clips to create
    ki_i,             \* the clip process_all_clips is at
    ki_pc,            \* position of run
    ki_calls,         \* history: the number of create_clip calls made
    ki_interrupt_at,  \* the clip during which KeyboardInterrupt was raised, 0 if none
    ki_region,        \* the code that was running when it was raised
    ki_exit,          \* what run returned, -1 before it returns
    ki_summary,       \* history: print_final_summary was called
    \* --- ClipDownloader.download_all_clips ---
    da_clips,          \* what find_all_clip_elements returns
    da_page,           \* whether navigate_to_clips_page succeeds
    da_report_file,    \* whether download_report.json can be written
    da_pc,             \* position of download_all_clips
    da_i,              \* the clip the loop is at
    downloaded_count,  \* downloaded_count
    failed_count,      \* failed_count
    da_tally,          \* history: each count made, with the clip it was made for
    da_report,         \* what became of save_download_report
    da_result          \* the dict download_all_clips returns

runVars == <<pc, csv_clips, grouped, gi, ci, current_url, stats, calls, submits,
             resets, login_attempts, login_failed, download_runs, process_result,
             exit_code, exit_path, download_only, driver, finale>>
csvVars == <<csv_file, csv_pc, row_num, clips, invalid_rows, grouped_clips, first_grouped>>
timeVars == <<t_pc, t_in, t_secs, t_fmt, t_secs2>>
locVars == <<loc_doc, loc_idx, loc_queried, loc_result>>
clickVars == <<click_env, click_attempt, click_log, click_result>>
dlVars == <<dl_dir, dl_info, dl_pc, dl_filename, dl_counter, dl_written, dl_result>>
cfgVars == <<cfg_pc, cfg_environ, cfg_argv, cfg_args, CONFIG, runner_config>>
ccVars == <<cc_env, cc_pc, cc_log, cc_result>>
lgVars == <<lg_env, lg_pc, lg_log, lg_result>>
iuVars == <<iu_env, iu_submit, iu_url, iu_before, iu_current_url, iu_pc, iu_log, iu_result>>
navVars == <<nav_urls, nav_gi, nav_current_url, nav_pc, nav_before, nav_log>>
tmVars == <<tm_sizes, tm_gi, tm_ci, tm_pc, tm_k, tm_elapsed, tm_timed_out>>
kiVars == <<ki_n, ki_i, ki_pc, ki_calls, ki_interrupt_at, ki_region, ki_exit, ki_summary>>
daVars == <<da_clips, da_page, da_report_file, da_pc, da_i, downloaded_count, failed_count, da_tally, da_report, da_result>>
unitVars == <<clickVars, dlVars, cfgVars, ccVars, lgVars, iuVars, navVars, tmVars, kiVars, daVars>>
baseVars == <<runVars, csvVars, timeVars, locVars>>
exceptClick == <<baseVars, dlVars, cfgVars, ccVars, lgVars, iuVars, navVars, tmVars, kiVars, daVars>>
exceptDl == <<baseVars, clickVars, cfgVars, ccVars, lgVars, iuVars, navVars, tmVars, kiVars, daVars>>
exceptCfg == <<baseVars, clickVars, dlVars, ccVars, lgVars, iuVars, navVars, tmVars, kiVars, daVars>>
exceptCc == <<baseVars, clickVars, dlVars, cfgVars, lgVars, iuVars, navVars, tmVars, kiVars, daVars>>
exceptLg == <<baseVars, clickVars, dlVars, cfgVars, ccVars, iuVars, navVars, tmVars, kiVars, daVars>>
exceptIu == <<baseVars, clickVars, dlVars, cfgVars, ccVars, lgVars, navVars, tmVars, kiVars, daVars>>
exceptNav == <<baseVars, clickVars, dlVars, cfgVars, ccVars, lgVars, iuVars, tmVars, kiVars, daVars>>
exceptTm == <<baseVars, clickVars, dlVars, cfgVars, ccVars, lgVars, iuVars, navVars, kiVars, daVars>>
exceptKi == <<baseVars, clickVars, dlVars, cfgVars, ccVars, lgVars, iuVars, navVars, tmVars, daVars>>
exceptDa == <<baseVars, clickVars, dlVars, cfgVars, ccVars, lgVars, iuVars, navVars, tmVars, kiVars>>
vars == <<runVars, csvVars, timeVars, locVars, unitVars>>

(***************************************************************************)
(* Bounds of the model.                                                    *)
(***************************************************************************)
MaxClips == 3
MaxRows == 3
MaxHourDigits == 3
MaxSelectors == 3
MaxDownloaded == 1
MaxAttempts == 3
MaxFiles == 3
MaxOldClips == 1

(***************************************************************************)
(* Strings.                                                                *)
(***************************************************************************)
NoneUrl == <<>>

AsciiDigits == <<"0", "1", "2", "3", "4", "5", "6", "7", "8", "9">>

IsAsciiDigit(c) == \E d \in 1..10 : AsciiDigits[d] = c

\* "sup2" stands for a character such as U+00B2: str.isdigit() accepts it, int() does not.
IsDigitChar(c) == IsAsciiDigit(c) \/ c = "sup2"

DigitValue(c) == (CHOOSE d \in 1..10 : AsciiDigits[d] = c) - 1

\* str.isdigit(): every character is a digit and there is at least one.
isdigit(s) == Len(s) > 0 /\ \A k \in 1..Len(s) : IsDigitChar(s[k])

RECURSIVE DecimalValue(_)
DecimalValue(s) ==
    IF s = <<>> THEN 0
    ELSE 10 * DecimalValue(SubSeq(s, 1, Len(s) - 1)) + DigitValue(s[Len(s)])

\* int(x) for the strings of this model: a value, or ValueError.
int(s) ==
    IF Len(s) > 0 /\ \A k \in 1..Len(s) : IsAsciiDigit(s[k])
    THEN [ok |-> TRUE, val |-> DecimalValue(s)]
    ELSE [ok |-> FALSE, val |-> 0]

RECURSIVE SplitFrom(_, _, _)
SplitFrom(s, sep, cur) ==
    IF s = <<>> THEN <<cur>>
    ELSE IF Head(s) = sep THEN <<cur>> \o SplitFrom(Tail(s), sep, <<>>)
    ELSE SplitFrom(Tail(s), sep, Append(cur, Head(s)))

\* str.split(':')
split(s) == SplitFrom(s, ":", <<>>)

RECURSIVE LStrip(_)
LStrip(s) == IF s # <<>> /\ Head(s) = " " THEN LStrip(Tail(s)) ELSE s

RECURSIVE RStrip(_)
RStrip(s) == IF s # <<>> /\ s[Len(s)] = " " THEN RStrip(SubSeq(s, 1, Len(s) - 1)) ELSE s

\* str.strip()
strip(s) == RStrip(LStrip(s))

\* `sub in s`
Contains(s, sub) ==
    \E k \in 0..(Len(s) - Len(sub)) : SubSeq(s, k + 1, k + Len(sub)) = sub

\* s.startswith(prefix)
StartsWith(s, prefix) == Len(s) >= Len(prefix) /\ SubSeq(s, 1, Len(prefix)) = prefix

(***************************************************************************)
(* CSVReader (csv_reader.py).                                              *)
(***************************************************************************)
\* CSVReader.validate_time_format: any exception inside the try is a False.
validate_time_format(time_str) ==
    LET parts == split(time_str) IN
    IF Len(parts) # 3 THEN FALSE
    ELSE IF ~(isdigit(parts[1]) /\ isdigit(parts[2]) /\ isdigit(parts[3])) THEN FALSE
    ELSE IF ~int(parts[2]).ok THEN FALSE
    ELSE IF int(parts[2]).val >= 60 THEN FALSE
    ELSE IF ~int(parts[3]).ok THEN FALSE
    ELSE IF int(parts[3]).val >= 60 THEN FALSE
    ELSE TRUE

youtube_domains == << <<"youtube.com">>, <<"youtu.be">>, <<"www.", "youtube.com">> >>

\* CSVReader.validate_youtube_url
validate_youtube_url(url) ==
    /\ \E d \in 1..Len(youtube_domains) : Contains(url, youtube_domains[d])
    /\ StartsWith(url, <<"http">>)

ClipData(start_time, end_time, youtube_url, row_number) ==
    [start_time |-> start_time, end_time |-> end_time,
     youtube_url |-> youtube_url, row_number |-> row_number]

\* The reason read_csv records for a row it rejects, "" for a row it keeps.
RowVerdict(row) ==
    IF Len(row) < 3 THEN "Insufficient columns"
    ELSE IF ~validate_time_format(strip(row[1])) THEN "Invalid start time format"
    ELSE IF ~validate_time_format(strip(row[2])) THEN "Invalid end time format"
    ELSE IF ~validate_youtube_url(strip(row[3])) THEN "Invalid YouTube URL"
    ELSE ""

\* A bug read_csv does not have: a rejected row ends the load.
read_csv_row_abort(cl, inv, n, row) ==
    IF RowVerdict(row) # ""
    THEN [clips |-> cl, invalid_rows |-> Append(inv, n), raised |-> TRUE]
    ELSE [clips |-> Append(cl, ClipData(strip(row[1]), strip(row[2]), strip(row[3]), n)),
          invalid_rows |-> inv, raised |-> FALSE]

\* One iteration of read_csv's loop over the rows: row number n, row `row`.
read_csv_row(cl, inv, n, row) ==
    IF RowVerdict(row) # ""
    THEN [clips |-> cl, invalid_rows |-> Append(inv, n), raised |-> FALSE]
    ELSE [clips |-> Append(cl, ClipData(strip(row[1]), strip(row[2]), strip(row[3]), n)),
          invalid_rows |-> inv, raised |-> FALSE]

\* A bug group_clips_by_url does not have: a repeated URL restarts its list.
AddClipOverwrite(acc, clip) ==
    IF \E k \in 1..Len(acc) : acc[k].url = clip.youtube_url
    THEN LET k == CHOOSE k \in 1..Len(acc) : acc[k].url = clip.youtube_url
         IN  [acc EXCEPT ![k].clips = <<clip>>]
    ELSE Append(acc, [url |-> clip.youtube_url, clips |-> <<clip>>])

\* grouped[clip.youtube_url].append(clip) on an insertion-ordered dict.
AddClip(acc, clip) ==
    IF \E k \in 1..Len(acc) : acc[k].url = clip.youtube_url
    THEN LET k == CHOOSE k \in 1..Len(acc) : acc[k].url = clip.youtube_url
         IN  [acc EXCEPT ![k].clips = Append(@, clip)]
    ELSE Append(acc, [url |-> clip.youtube_url, clips |-> <<clip>>])

RECURSIVE GroupFold(_, _)
GroupFold(acc, cl) ==
    IF cl = <<>> THEN acc ELSE GroupFold(AddClip(acc, Head(cl)), Tail(cl))

\* Insert c after every element whose row_number is not greater (stable).
RECURSIVE InsertByRow(_, _)
InsertByRow(sorted, c) ==
    IF sorted = <<>> THEN <<c>>
    ELSE IF sorted[Len(sorted)].row_number <= c.row_number THEN Append(sorted, c)
    ELSE Append(InsertByRow(SubSeq(sorted, 1, Len(sorted) - 1), c), sorted[Len(sorted)])

RECURSIVE SortFold(_, _)
SortFold(acc, cl) ==
    IF cl = <<>> THEN acc ELSE SortFold(InsertByRow(acc, Head(cl)), Tail(cl))

\* url_clips.sort(key=lambda x: x.row_number): a stable sort.
SortByRow(cl) == SortFold(<<>>, cl)

SortGroups(g) == [k \in 1..Len(g) |-> [url |-> g[k].url, clips |-> SortByRow(g[k].clips)]]

\* A bug group_clips_by_url does not have: it adds to self.grouped_clips
\* instead of starting from an empty dict.
group_clips_by_url_accumulate(cl) == SortGroups(GroupFold(grouped_clips, cl))

\* CSVReader.group_clips_by_url: the dict it returns, as its items in order.
group_clips_by_url(cl) == SortGroups(GroupFold(<<>>, cl))

(***************************************************************************)
(* Time helpers (web_automation.py, module level).                         *)
(***************************************************************************)
\* convert_time_to_seconds: int() of each part; any exception gives 0.
convert_time_to_seconds(time_str) ==
    LET parts == split(time_str) IN
    IF \E k \in 1..Len(parts) : ~int(parts[k]).ok THEN 0
    ELSE IF Len(parts) < 3 THEN 0
    ELSE int(parts[1]).val * 3600 + int(parts[2]).val * 60 + int(parts[3]).val

RECURSIVE Decimal(_)
Decimal(n) ==
    IF n < 10 THEN <<AsciiDigits[n + 1]>>
    ELSE Append(Decimal(n \div 10), AsciiDigits[(n % 10) + 1])

\* f"{n:02d}" for n >= 0: at least two digits, zero-padded.
Format02d(n) == IF n < 10 THEN <<"0">> \o Decimal(n) ELSE Decimal(n)

\* A bug format_seconds_to_time does not have: minutes are not reduced modulo the hour.
format_seconds_to_time_whole_minutes(seconds) ==
    Format02d(seconds \div 3600) \o <<":">> \o Format02d(seconds \div 60)
        \o <<":">> \o Format02d(seconds % 60)

\* format_seconds_to_time
format_seconds_to_time(seconds) ==
    Format02d(seconds \div 3600) \o <<":">> \o Format02d((seconds % 3600) \div 60)
        \o <<":">> \o Format02d(seconds % 60)

(***************************************************************************)
(* The locator (ClipScutterWebAutomation.find_element_with_multiple_       *)
(* selectors). What the document holds for a candidate selector:           *)
(*   "absent"  nothing matches within the timeout (TimeoutException),      *)
(*   "present" a displayed element matches,                                *)
(*   "hidden"  an element matches that is in the DOM but not displayed,    *)
(*   "error"   the wait raises something that is not a TimeoutException.   *)
(***************************************************************************)
DocStates == {"absent", "present", "hidden", "error"}

\* A bug the locator does not have: the timeout of a candidate is not caught.
locator_try_uncaught(found) ==
    CASE found = "present" -> "return"
      [] found = "hidden" -> "return"
      [] found = "absent" -> "raise"
      [] OTHER -> "raise"

\* One iteration of the for loop: WebDriverWait(...).until(presence_of_element_located).
locator_try(found) ==
    CASE found = "present" -> "return"
      [] found = "hidden" -> "return"
      [] found = "absent" -> "continue"
      [] OTHER -> "raise"

RECURSIVE LocateFrom(_, _)
LocateFrom(doc, k) ==
    IF k > Len(doc) THEN [kind |-> "None", index |-> 0]
    ELSE CASE locator_try(doc[k]) = "return" -> [kind |-> "element", index |-> k]
           [] locator_try(doc[k]) = "continue" -> LocateFrom(doc, k + 1)
           [] OTHER -> [kind |-> "raise", index |-> k]

\* find_element_with_multiple_selectors as a function of the document.
find_element_with_multiple_selectors(doc) == LocateFrom(doc, 1)

(***************************************************************************)
(* ClipScutterWebAutomation: the operations process_all_clips and run use, *)
(* each as a function of what the remote page shows when it is called.     *)
(***************************************************************************)
\* What perform_login meets: whether the email and password fields are found,
\* whether an interaction raises, what becomes of the submit button, and what
\* check_login_success observes.
LoginEnvs ==
    [email : BOOLEAN, password : BOOLEAN, raises : BOOLEAN,
     submit : {"clicked", "click_failed", "no_button"},
     check : {"indicator", "redirected", "error", "unclear", "exception"}]

\* check_login_success
check_login_success(check) ==
    CASE check = "indicator" -> TRUE
      [] check = "redirected" -> TRUE
      [] check = "error" -> FALSE
      [] check = "unclear" -> TRUE
      [] OTHER -> TRUE

\* ClipScutterWebAutomation.perform_login
web_perform_login(env) ==
    IF ~env.email THEN FALSE
    ELSE IF ~env.password THEN FALSE
    ELSE IF env.raises THEN FALSE
    ELSE check_login_success(env.check)

\* What input_youtube_url meets: whether the URL field is found, whether an
\* interaction raises, and whether the editor loads within wait_for_video_load.
UrlEnvs == [input_found : BOOLEAN, raises : BOOLEAN, loaded : BOOLEAN]

\* wait_for_video_load: True on every path.
wait_for_video_load(loaded) == IF loaded THEN TRUE ELSE TRUE

\* input_youtube_url: its return value.
input_youtube_url(env) ==
    IF ~env.input_found THEN FALSE
    ELSE IF env.raises THEN FALSE
    ELSE TRUE

\* A bug input_youtube_url does not have: the URL is recorded before it is submitted.
input_youtube_url_current_always(cur, url, env) == url

\* input_youtube_url: self.current_url when it returns.
input_youtube_url_current(cur, url, env) ==
    IF input_youtube_url(env) THEN url ELSE cur

\* A bug check_if_same_video_loaded does not have: any loaded video counts as the same.
check_if_any_video_loaded(cur, url) == cur # NoneUrl

\* check_if_same_video_loaded
check_if_same_video_loaded(cur, url) == cur = url

\* reset_for_new_video: self.current_url when it returns.
reset_for_new_video(cur) == NoneUrl

\* What create_clip meets on the page.
ClipEnvs ==
    [picker : BOOLEAN,
     start : {"set", "set_js", "no_inputs", "raise"},
     end : {"set", "set_js", "set_refresh", "fail"},
     create_button : BOOLEAN,
     click_ok : BOOLEAN,
     artifact : {"new", "old_only", "none"}]

\* wait_for_clip_creation: True when a download button is seen, and True on timeout.
wait_for_clip_creation(artifact) == IF artifact # "none" THEN TRUE ELSE TRUE

\* download_latest_clip: clicks the first download button there is.
download_latest_clip(artifact) == artifact # "none"

\* fast_wait_and_download: a new clip within the timeout, else download_latest_clip.
fast_wait_and_download(artifact) ==
    IF artifact = "new" THEN TRUE ELSE download_latest_clip(artifact)

\* create_clip reached its wait after clicking the creation control.
ReachedWait(env) ==
    /\ env.create_button /\ env.click_ok
    /\ env.picker => (env.start # "raise" /\ env.end # "fail")

\* The wait budget was exhausted: fast_wait_and_download saw no new artifact,
\* wait_for_clip_creation saw no download control.
TimedOut(env) ==
    /\ ReachedWait(env)
    /\ IF env.picker THEN env.artifact # "new" ELSE env.artifact = "none"

\* create_clip: its return value.
create_clip(env) ==
    IF env.picker
    THEN IF env.start = "raise" THEN FALSE
         ELSE IF env.end = "fail" THEN FALSE
         ELSE IF ~env.create_button THEN TRUE
         ELSE IF ~env.click_ok THEN FALSE
         ELSE IF fast_wait_and_download(env.artifact) THEN TRUE ELSE TRUE
    ELSE IF ~env.create_button THEN TRUE
         ELSE IF ~env.click_ok THEN FALSE
         ELSE wait_for_clip_creation(env.artifact)

(***************************************************************************)
(* ClipScutterRunner (run_automation.py).                                  *)
(***************************************************************************)
ENABLE_AUTO_LOGIN == TRUE

T_000010 == <<"0", "0", ":", "0", "0", ":", "1", "0">>
T_000020 == <<"0", "0", ":", "0", "0", ":", "2", "0">>
UrlA == <<"http", "s", "://", "www.", "youtube.com", "/watch?v=", "a">>
UrlB == <<"http", "s", "://", "youtube.com", "/watch?v=", "b">>
UrlC == <<"http", "s", "://", "youtu.be", "/", "c">>
RunUrls == {UrlA, UrlB, UrlC}

\* The lists read_csv can return: valid descriptors, row numbers increasing.
DescriptorLists ==
    UNION {[1..n -> RunUrls] : n \in 0..MaxClips}

DescriptorList(urls) ==
    [k \in 1..Len(urls) |-> ClipData(T_000010, T_000020, urls[k], k)]

InitStats ==
    [total_clips |-> 0, unique_urls |-> 0, clips_created |-> 0,
     failed_clips |-> 0, clips_downloaded |-> 0]

RunInit ==
    /\ pc = "read_csv"
    /\ csv_clips \in {DescriptorList(u) : u \in DescriptorLists}
    /\ grouped = <<>>
    /\ gi = 1
    /\ ci = 1
    /\ current_url = NoneUrl
    /\ stats = InitStats
    /\ calls = <<>>
    /\ submits = <<>>
    /\ resets = 0
    /\ login_attempts = 0
    /\ login_failed = FALSE
    /\ download_runs = 0
    /\ process_result = "none"
    /\ exit_code = -1
    /\ exit_path = "none"
    /\ download_only \in BOOLEAN
    /\ driver = FALSE
    /\ finale = <<>>

RunIdle ==
    /\ pc = "idle"
    /\ csv_clips = <<>>
    /\ grouped = <<>>
    /\ gi = 1
    /\ ci = 1
    /\ current_url = NoneUrl
    /\ stats = InitStats
    /\ calls = <<>>
    /\ submits = <<>>
    /\ resets = 0
    /\ login_attempts = 0
    /\ login_failed = FALSE
    /\ download_runs = 0
    /\ process_result = "none"
    /\ exit_code = -1
    /\ exit_path = "none"
    /\ download_only = FALSE
    /\ driver = FALSE
    /\ finale = <<>>

\* `return code` inside run's try, or in one of its handlers: the finally
\* block is still to run.
Return(code, path) == pc' = "finally" /\ exit_code' = code /\ exit_path' = path

otherVars == <<csvVars, timeVars, locVars, unitVars>>

\* setup_webdriver: webdriver.Chrome(...) raises (no session exists), or the
\* session is created and a later statement raises, or all of it succeeds.
WebdriverOutcomes == {"ok", "no_driver", "driver_then_error"}

setup_webdriver(outcome) ==
    [driver |-> outcome # "no_driver", ok |-> outcome = "ok"]

\* run in download-only mode: download_clips_only, then `return 0 if success else 1`.
DownloadClipsOnly ==
    /\ pc = "read_csv"
    /\ download_only
    /\ \E outcome \in WebdriverOutcomes, downloaded \in BOOLEAN :
          LET setup == setup_webdriver(outcome)
              success == setup.ok /\ downloaded
          IN  /\ driver' = setup.driver
              /\ download_runs' = IF setup.ok THEN download_runs + 1 ELSE download_runs
              /\ Return(IF success THEN 0 ELSE 1, "download_only")
    /\ UNCHANGED <<csv_clips, grouped, gi, ci, current_url, stats, calls, submits, resets,
                   login_attempts, login_failed, process_result, download_only, finale>>
    /\ UNCHANGED otherVars

\* run: read_and_validate_csv, which reads, groups and sets the totals.
ReadAndValidateCsv ==
    /\ pc = "read_csv"
    /\ ~download_only
    /\ \E readable \in BOOLEAN :
          IF readable /\ csv_clips # <<>>
          THEN /\ grouped' = group_clips_by_url(csv_clips)
               /\ stats' = [stats EXCEPT !.total_clips = Len(csv_clips),
                                         !.unique_urls = Len(group_clips_by_url(csv_clips))]
               /\ pc' = "setup_webdriver"
               /\ UNCHANGED <<exit_code, exit_path>>
          ELSE /\ Return(1, "csv")
               /\ UNCHANGED <<grouped, stats>>
    /\ UNCHANGED <<csv_clips, gi, ci, current_url, calls, submits, resets,
                   login_attempts, login_failed, download_runs, process_result,
                   download_only, driver, finale>>
    /\ UNCHANGED otherVars

\* A step of run that either succeeds and goes on, or returns 1.
Stage(here, next, path) ==
    /\ pc = here
    /\ \E ok \in BOOLEAN :
          IF ok THEN pc' = next /\ UNCHANGED <<exit_code, exit_path>> ELSE Return(1, path)
    /\ UNCHANGED <<csv_clips, grouped, gi, ci, current_url, stats, calls, submits,
                   resets, login_attempts, login_failed, download_runs, process_result,
                   download_only, driver, finale>>
    /\ UNCHANGED otherVars

SetupWebdriver ==
    /\ pc = "setup_webdriver"
    /\ \E outcome \in WebdriverOutcomes :
          LET setup == setup_webdriver(outcome) IN
          /\ driver' = setup.driver
          /\ IF setup.ok
             THEN pc' = "initialize_modules" /\ UNCHANGED <<exit_code, exit_path>>
             ELSE Return(1, "webdriver")
    /\ UNCHANGED <<csv_clips, grouped, gi, ci, current_url, stats, calls, submits,
                   resets, login_attempts, login_failed, download_runs, process_result,
                   download_only, finale>>
    /\ UNCHANGED otherVars

InitializeModules == Stage("initialize_modules", "initialize_modules_again", "modules")

InitializeModulesAgain ==
    Stage("initialize_modules_again", "navigate_to_login_page", "modules")

NavigateToLoginPage == Stage("navigate_to_login_page", "perform_login", "navigation")

\* A bug run does not have: a failed login is only logged.
after_login_continue(success) == "navigate_to_homepage"

\* run: where it goes after perform_login; "return 1" ends it.
after_login(success) == IF success THEN "navigate_to_homepage" ELSE "return 1"

\* ClipScutterRunner.perform_login, and run's test of its result.
PerformLogin ==
    /\ pc = "perform_login"
    /\ \E env \in LoginEnvs :
          LET success == IF ENABLE_AUTO_LOGIN THEN web_perform_login(env) ELSE TRUE IN
          /\ login_attempts' = IF ENABLE_AUTO_LOGIN THEN login_attempts + 1 ELSE login_attempts
          /\ login_failed' = ~success
          /\ IF after_login(success) = "return 1"
             THEN Return(1, "login")
             ELSE pc' = after_login(success) /\ UNCHANGED <<exit_code, exit_path>>
    /\ UNCHANGED <<csv_clips, grouped, gi, ci, current_url, stats, calls, submits,
                   resets, download_runs, process_result, download_only, driver, finale>>
    /\ UNCHANGED otherVars

NavigateToHomepage == Stage("navigate_to_homepage", "setup_premium_trial", "navigation")

\* setup_premium_trial returns True on every path; run goes on either way.
SetupPremiumTrial ==
    /\ pc = "setup_premium_trial"
    /\ pc' = "group"
    /\ UNCHANGED <<csv_clips, grouped, gi, ci, current_url, stats, calls, submits, resets,
                   login_attempts, login_failed, download_runs, process_result, exit_code,
                   exit_path, download_only, driver, finale>>
    /\ UNCHANGED otherVars

\* process_all_clips, top of the loop over grouped_clips.items(): the check for
\* the loaded video, the homepage reset, the URL submission and its `continue`.
ProcessGroup ==
    /\ pc = "group"
    /\ gi <= Len(grouped)
    /\ LET url == grouped[gi].url IN
       IF check_if_same_video_loaded(current_url, url)
       THEN /\ pc' = "clip"
            /\ ci' = 1
            /\ UNCHANGED <<gi, current_url, submits, resets>>
       ELSE \E env \in UrlEnvs :
               LET cur1 == IF current_url # NoneUrl
                           THEN reset_for_new_video(current_url) ELSE current_url
                   ok == input_youtube_url(env)
               IN  /\ resets' = IF current_url # NoneUrl THEN resets + 1 ELSE resets
                   /\ current_url' = input_youtube_url_current(cur1, url, env)
                   /\ submits' = Append(submits, [g |-> gi, url |-> url, ok |-> ok])
                   /\ IF ok
                      THEN pc' = "clip" /\ ci' = 1 /\ gi' = gi
                      ELSE pc' = "group" /\ ci' = ci /\ gi' = gi + 1
    /\ UNCHANGED <<csv_clips, grouped, stats, calls, login_attempts, login_failed,
                   download_runs, process_result, exit_code, exit_path, download_only,
                   driver, finale>>
    /\ UNCHANGED otherVars

\* A bug process_all_clips does not have: a failed clip ends its group's loop.
after_create_clip_break(success, g, i, n) ==
    IF success /\ i < n
    THEN [pc |-> "clip", gi |-> g, ci |-> i + 1]
    ELSE [pc |-> "group", gi |-> g + 1, ci |-> 1]

\* A bug process_all_clips does not have: a failed clip is tried again.
after_create_clip_again(success, g, i, n) ==
    IF ~success THEN [pc |-> "clip", gi |-> g, ci |-> i]
    ELSE IF i < n THEN [pc |-> "clip", gi |-> g, ci |-> i + 1]
    ELSE [pc |-> "group", gi |-> g + 1, ci |-> 1]

\* Where the loops stand after clip i of the n clips of group g.
after_create_clip(success, g, i, n) ==
    IF i < n
    THEN [pc |-> "clip", gi |-> g, ci |-> i + 1]
    ELSE [pc |-> "group", gi |-> g + 1, ci |-> 1]

\* process_all_clips, one iteration of the loop over enumerate(clips, 1).
CreateClip ==
    /\ pc = "clip"
    /\ \E env \in ClipEnvs :
          LET clip == grouped[gi].clips[ci]
              success == create_clip(env)
              pos == after_create_clip(success, gi, ci, Len(grouped[gi].clips))
          IN  /\ calls' = Append(calls,
                     [g |-> gi, i |-> ci, row |-> clip.row_number, url |-> clip.youtube_url,
                      cur |-> current_url, navigate_to_controls |-> (ci > 1),
                      timeout |-> TimedOut(env), result |-> success])
              /\ stats' = IF success
                          THEN [stats EXCEPT !.clips_created = @ + 1]
                          ELSE [stats EXCEPT !.failed_clips = @ + 1]
              /\ pc' = pos.pc
              /\ gi' = pos.gi
              /\ ci' = pos.ci
    /\ UNCHANGED <<csv_clips, grouped, current_url, submits, resets, login_attempts,
                   login_failed, download_runs, process_result, exit_code, exit_path,
                   download_only, driver, finale>>
    /\ UNCHANGED otherVars

\* process_all_clips: the loop over the groups is over, it returns True.
ProcessReturn ==
    /\ pc = "group"
    /\ gi > Len(grouped)
    /\ process_result' = "True"
    /\ pc' = "download_all_clips"
    /\ UNCHANGED <<csv_clips, grouped, gi, ci, current_url, stats, calls, submits, resets,
                   login_attempts, login_failed, download_runs, exit_code, exit_path,
                   download_only, driver, finale>>
    /\ UNCHANGED otherVars

\* ClipScutterRunner.download_all_clips; run returns 0 whatever it reports.
DownloadAllClips ==
    /\ pc = "download_all_clips"
    /\ \E outcome \in {"skip", "success", "failure"} :
          /\ download_runs' = IF outcome = "skip" THEN download_runs ELSE download_runs + 1
          /\ IF outcome = "success"
             THEN \E n \in 0..MaxDownloaded : stats' = [stats EXCEPT !.clips_downloaded = n]
             ELSE UNCHANGED stats
    /\ Return(0, "completed")
    /\ UNCHANGED <<csv_clips, grouped, gi, ci, current_url, calls, submits, resets,
                   login_attempts, login_failed, process_result, download_only, driver,
                   finale>>
    /\ UNCHANGED otherVars

\* The positions of run inside its try block, and those inside process_all_clips.
TryBody ==
    {"read_csv", "setup_webdriver", "initialize_modules", "initialize_modules_again",
     "navigate_to_login_page", "perform_login", "navigate_to_homepage",
     "setup_premium_trial", "group", "clip", "download_all_clips"}

InProcessAllClips == {"group", "clip"}

\* process_all_clips: an exception inside its try is caught, it returns False
\* and run returns 1.
ProcessAllClipsFails ==
    /\ pc \in InProcessAllClips
    /\ process_result' = "False"
    /\ Return(1, "processing")
    /\ UNCHANGED <<csv_clips, grouped, gi, ci, current_url, stats, calls, submits, resets,
                   login_attempts, login_failed, download_runs, download_only, driver,
                   finale>>
    /\ UNCHANGED otherVars

\* run: `except Exception`, for an exception no callee caught.
RunException ==
    /\ pc \in TryBody \ InProcessAllClips
    /\ Return(1, "exception")
    /\ UNCHANGED <<csv_clips, grouped, gi, ci, current_url, stats, calls, submits, resets,
                   login_attempts, login_failed, download_runs, process_result,
                   download_only, driver, finale>>
    /\ UNCHANGED otherVars

\* run: `except KeyboardInterrupt`; an interrupt during setup_webdriver finds
\* the session created or not.
RunInterrupt ==
    /\ pc \in TryBody
    /\ \E created \in BOOLEAN :
          driver' = IF pc = "setup_webdriver" \/ (pc = "read_csv" /\ download_only)
                    THEN created ELSE driver
    /\ Return(1, "interrupt")
    /\ UNCHANGED <<csv_clips, grouped, gi, ci, current_url, stats, calls, submits, resets,
                   login_attempts, login_failed, download_runs, process_result,
                   download_only, finale>>
    /\ UNCHANGED otherVars

\* run's finally block, first statement: print_final_summary.
PrintFinalSummary ==
    /\ pc = "finally"
    /\ finale' = Append(finale, "summary")
    /\ pc' = "cleanup"
    /\ UNCHANGED <<csv_clips, grouped, gi, ci, current_url, stats, calls, submits, resets,
                   login_attempts, login_failed, download_runs, process_result, exit_code,
                   exit_path, download_only, driver>>
    /\ UNCHANGED otherVars

cleanup_nothing(has_driver) == <<>>

\* cleanup: `if self.driver: self.driver.quit()`, an exception of quit is logged.
cleanup(has_driver) == IF has_driver THEN <<"quit">> ELSE <<>>

\* run's finally block, second statement: cleanup; then run returns.
Cleanup ==
    /\ pc = "cleanup"
    /\ finale' = finale \o cleanup(driver)
    /\ pc' = "exited"
    /\ UNCHANGED <<csv_clips, grouped, gi, ci, current_url, stats, calls, submits, resets,
                   login_attempts, login_failed, download_runs, process_result, exit_code,
                   exit_path, download_only, driver>>
    /\ UNCHANGED otherVars

(***************************************************************************)
(* The idle conditions: a specification drives one component and           *)
(* leaves the others where they are.                                       *)
(***************************************************************************)
CsvIdle ==
    /\ csv_file = <<>>
    /\ csv_pc = "idle"
    /\ row_num = 1
    /\ clips = <<>>
    /\ invalid_rows = <<>>
    /\ grouped_clips = <<>>
    /\ first_grouped = [groups |-> <<>>, input |-> <<>>]

TimeIdle ==
    /\ t_pc = "idle" /\ t_in = <<>> /\ t_secs = 0 /\ t_fmt = <<>> /\ t_secs2 = 0

LocIdle ==
    /\ loc_doc = <<>>
    /\ loc_idx = 1
    /\ loc_queried = <<>>
    /\ loc_result = [kind |-> "idle", index |-> 0]

ClickIdle ==
    /\ click_env = <<>>
    /\ click_attempt = 0
    /\ click_log = <<>>
    /\ click_result = "idle"

DlIdle ==
    /\ dl_dir = {}
    /\ dl_info = <<>>
    /\ dl_pc = "idle"
    /\ dl_filename = <<>>
    /\ dl_counter = 1
    /\ dl_written = <<>>
    /\ dl_result = "idle"

CfgIdle ==
    /\ cfg_pc = "idle"
    /\ cfg_environ = <<>>
    /\ cfg_argv = <<>>
    /\ cfg_args = <<>>
    /\ CONFIG = "unbound"
    /\ runner_config = "unbound"

CcIdle ==
    /\ cc_env = <<>>
    /\ cc_pc = "idle"
    /\ cc_log = <<>>
    /\ cc_result = "idle"

LgIdle ==
    /\ lg_env = <<>>
    /\ lg_pc = "idle"
    /\ lg_log = <<>>
    /\ lg_result = "idle"

IuIdle ==
    /\ iu_env = <<>>
    /\ iu_submit = "none"
    /\ iu_url = NoneUrl
    /\ iu_before = NoneUrl
    /\ iu_current_url = NoneUrl
    /\ iu_pc = "idle"
    /\ iu_log = <<>>
    /\ iu_result = "idle"

NavIdle ==
    /\ nav_urls = <<>>
    /\ nav_gi = 1
    /\ nav_current_url = NoneUrl
    /\ nav_pc = "idle"
    /\ nav_before = <<>>
    /\ nav_log = <<>>

TmIdle ==
    /\ tm_sizes = <<>>
    /\ tm_gi = 1
    /\ tm_ci = 1
    /\ tm_pc = "idle"
    /\ tm_k = 0
    /\ tm_elapsed = 0
    /\ tm_timed_out = FALSE

KiIdle ==
    /\ ki_n = 0
    /\ ki_i = 1
    /\ ki_pc = "idle"
    /\ ki_calls = 0
    /\ ki_interrupt_at = 0
    /\ ki_region = "none"
    /\ ki_exit = -1
    /\ ki_summary = FALSE

DaIdle ==
    /\ da_clips = <<>>
    /\ da_page = "none"
    /\ da_report_file = "none"
    /\ da_pc = "idle"
    /\ da_i = 1
    /\ downloaded_count = 0
    /\ failed_count = 0
    /\ da_tally = <<>>
    /\ da_report = "none"
    /\ da_result = <<>>

UnitIdle == ClickIdle /\ DlIdle /\ CfgIdle /\ CcIdle /\ LgIdle /\ IuIdle /\ NavIdle /\ TmIdle /\ KiIdle /\ DaIdle

(***************************************************************************)
(* Spec: ClipScutterRunner.run on the descriptor lists read_csv can return.*)
(***************************************************************************)
Init == RunInit /\ CsvIdle /\ TimeIdle /\ LocIdle /\ UnitIdle

Next ==
    \/ ReadAndValidateCsv
    \/ SetupWebdriver
    \/ InitializeModules
    \/ InitializeModulesAgain
    \/ NavigateToLoginPage
    \/ PerformLogin
    \/ NavigateToHomepage
    \/ SetupPremiumTrial
    \/ ProcessGroup
    \/ CreateClip
    \/ ProcessReturn
    \/ DownloadAllClips
    \/ DownloadClipsOnly
    \/ PrintFinalSummary
    \/ Cleanup

Spec == Init /\ [][Next]_vars

(***************************************************************************)
(* SpecExit: run with, besides the returns of Spec, the exits through      *)
(* process_all_clips' and run's exception handlers.                        *)
(***************************************************************************)
NextExit ==
    \/ Next
    \/ ProcessAllClipsFails
    \/ RunException
    \/ RunInterrupt

SpecExit == Init /\ [][NextExit]_vars

(***************************************************************************)
(* SpecCsv: CSVReader.read_csv on a file of rows, then group_clips_by_url  *)
(* twice on what it returned.                                              *)
(***************************************************************************)
T_000500_padded == <<" ", "0", "0", ":", "0", "5", ":", "0", "0">>
T_000530 == <<"0", "0", ":", "0", "5", ":", "3", "0">>
T_minute60 == <<"0", "0", ":", "6", "0", ":", "0", "0">>
T_sup2 == <<"0", "0", ":", "0", "0", ":", "sup2">>
T_letters == <<"a", "a", ":", "0", "0", ":", "0", "0">>
T_two_parts == <<"0", "0", ":", "1", "0">>
UrlOtherHost == <<"http", "s", "://", "video.example", "/", "a">>
UrlNotHttp == <<"ftp", "://", "youtube.com", "/", "a">>

\* The rows a file is made of: valid ones for three URLs, and one for each way
\* a row can fail (a blank line is the row []).
CsvRows ==
    { <<T_000010, T_000020, UrlA>>,
      <<T_000500_padded, T_000530, UrlA>>,
      <<T_000010, T_000020, UrlB>>,
      <<T_000010, T_000020, UrlC, <<"extra">> >>,
      <<T_000010, T_000020>>,
      << >>,
      <<T_minute60, T_000020, UrlA>>,
      <<T_letters, T_000020, UrlB>>,
      <<T_000010, T_sup2, UrlA>>,
      <<T_000010, T_two_parts, UrlB>>,
      <<T_000010, T_000020, UrlOtherHost>>,
      <<T_000010, T_000020, UrlNotHttp>> }

CsvFiles == UNION {[1..n -> CsvRows] : n \in 0..MaxRows}

CsvInit ==
    /\ csv_file \in CsvFiles
    /\ csv_pc = "open"
    /\ row_num = 1
    /\ clips = <<>>
    /\ invalid_rows = <<>>
    /\ grouped_clips = <<>>
    /\ first_grouped = [groups |-> <<>>, input |-> <<>>]

\* read_csv: open(self.csv_path); a missing file raises FileNotFoundError.
CsvOpen ==
    /\ csv_pc = "open"
    /\ \E exists \in BOOLEAN : csv_pc' = IF exists THEN "reading" ELSE "raised"
    /\ UNCHANGED <<csv_file, row_num, clips, invalid_rows, grouped_clips, first_grouped>>
    /\ UNCHANGED <<runVars, timeVars, locVars, unitVars>>

\* read_csv: one iteration of `for row_num, row in enumerate(csv_reader, 1)`.
CsvReadRow ==
    /\ csv_pc = "reading"
    /\ row_num <= Len(csv_file)
    /\ LET r == read_csv_row(clips, invalid_rows, row_num, csv_file[row_num]) IN
       /\ clips' = r.clips
       /\ invalid_rows' = r.invalid_rows
       /\ csv_pc' = IF r.raised THEN "raised" ELSE "reading"
    /\ row_num' = row_num + 1
    /\ UNCHANGED <<csv_file, grouped_clips, first_grouped>>
    /\ UNCHANGED <<runVars, timeVars, locVars, unitVars>>

\* read_csv: the loop is over; self.clips = clips; return clips.
CsvReadReturn ==
    /\ csv_pc = "reading"
    /\ row_num > Len(csv_file)
    /\ csv_pc' = "read"
    /\ UNCHANGED <<csv_file, row_num, clips, invalid_rows, grouped_clips, first_grouped>>
    /\ UNCHANGED <<runVars, timeVars, locVars, unitVars>>

\* group_clips_by_url(clips), first call.
CsvGroup ==
    /\ csv_pc = "read"
    /\ grouped_clips' = group_clips_by_url(clips)
    /\ first_grouped' = [groups |-> group_clips_by_url(clips), input |-> clips]
    /\ csv_pc' = "grouped"
    /\ UNCHANGED <<csv_file, row_num, clips, invalid_rows>>
    /\ UNCHANGED <<runVars, timeVars, locVars, unitVars>>

\* group_clips_by_url(clips), called again on the same list.
CsvGroupAgain ==
    /\ csv_pc = "grouped"
    /\ grouped_clips' = group_clips_by_url(clips)
    /\ csv_pc' = "regrouped"
    /\ UNCHANGED <<csv_file, row_num, clips, invalid_rows, first_grouped>>
    /\ UNCHANGED <<runVars, timeVars, locVars, unitVars>>

CsvNext == CsvOpen \/ CsvReadRow \/ CsvReadReturn \/ CsvGroup \/ CsvGroupAgain

InitCsv == RunIdle /\ CsvInit /\ TimeIdle /\ LocIdle /\ UnitIdle

SpecCsv == InitCsv /\ [][CsvNext]_vars

(***************************************************************************)
(* SpecTime: convert_time_to_seconds, format_seconds_to_time and           *)
(* convert_time_to_seconds again, on the strings HH:MM:SS with MM and SS   *)
(* below 60 (HH of two to MaxHourDigits digits).                           *)
(***************************************************************************)
HourDigitChars == {"0", "1", "9"}
TensChars == {"0", "5"}
UnitsChars == {"0", "9"}

HourStrings == UNION {[1..n -> HourDigitChars] : n \in 2..MaxHourDigits}

ValidTimeStrings ==
    { h \o <<":", m1, m2, ":", s1, s2>> :
        h \in HourStrings, m1 \in TensChars, m2 \in UnitsChars,
        s1 \in TensChars, s2 \in UnitsChars }

TimeInit ==
    /\ t_pc = "start"
    /\ t_in \in ValidTimeStrings
    /\ t_secs = 0
    /\ t_fmt = <<>>
    /\ t_secs2 = 0

TimeConvert ==
    /\ t_pc = "start"
    /\ t_secs' = convert_time_to_seconds(t_in)
    /\ t_pc' = "converted"
    /\ UNCHANGED <<t_in, t_fmt, t_secs2>>
    /\ UNCHANGED <<runVars, csvVars, locVars, unitVars>>

TimeFormat ==
    /\ t_pc = "converted"
    /\ t_fmt' = format_seconds_to_time(t_secs)
    /\ t_pc' = "formatted"
    /\ UNCHANGED <<t_in, t_secs, t_secs2>>
    /\ UNCHANGED <<runVars, csvVars, locVars, unitVars>>

TimeConvertBack ==
    /\ t_pc = "formatted"
    /\ t_secs2' = convert_time_to_seconds(t_fmt)
    /\ t_pc' = "done"
    /\ UNCHANGED <<t_in, t_secs, t_fmt>>
    /\ UNCHANGED <<runVars, csvVars, locVars, unitVars>>

TimeNext == TimeConvert \/ TimeFormat \/ TimeConvertBack

InitTime == RunIdle /\ CsvIdle /\ TimeInit /\ LocIdle /\ UnitIdle

SpecTime == InitTime /\ [][TimeNext]_vars

(***************************************************************************)
(* SpecLocator: find_element_with_multiple_selectors on a candidate list   *)
(* of up to MaxSelectors selectors, for every content of the document.     *)
(***************************************************************************)
LocInit ==
    /\ loc_doc \in UNION {[1..n -> DocStates] : n \in 0..MaxSelectors}
    /\ loc_idx = 1
    /\ loc_queried = <<>>
    /\ loc_result = [kind |-> "pending", index |-> 0]

\* A bug the locator does not have: a match does not end the loop, the search
\* goes through every candidate and the last match is returned.
LocTryExhaustive ==
    /\ loc_idx <= Len(loc_doc)
    /\ loc_result.kind \in {"pending", "element"}
    /\ loc_queried' = Append(loc_queried, loc_idx)
    /\ loc_result' = IF locator_try(loc_doc[loc_idx]) = "return"
                     THEN [kind |-> "element", index |-> loc_idx]
                     ELSE loc_result
    /\ loc_idx' = loc_idx + 1
    /\ UNCHANGED loc_doc
    /\ UNCHANGED <<runVars, csvVars, timeVars, unitVars>>

\* One iteration of `for selector in selectors`.
LocTry ==
    /\ loc_result.kind = "pending"
    /\ loc_idx <= Len(loc_doc)
    /\ loc_queried' = Append(loc_queried, loc_idx)
    /\ LET outcome == locator_try(loc_doc[loc_idx]) IN
       /\ loc_result' = CASE outcome = "return" -> [kind |-> "element", index |-> loc_idx]
                          [] outcome = "continue" -> loc_result
                          [] OTHER -> [kind |-> "raise", index |-> loc_idx]
       /\ loc_idx' = IF outcome = "continue" THEN loc_idx + 1 ELSE loc_idx
    /\ UNCHANGED loc_doc
    /\ UNCHANGED <<runVars, csvVars, timeVars, unitVars>>

\* The loop is over: return None.
LocReturnNone ==
    /\ loc_result.kind = "pending"
    /\ loc_idx > Len(loc_doc)
    /\ loc_result' = [kind |-> "None", index |-> 0]
    /\ UNCHANGED <<loc_doc, loc_idx, loc_queried>>
    /\ UNCHANGED <<runVars, csvVars, timeVars, unitVars>>

LocNext == LocTry \/ LocReturnNone

InitLocator == RunIdle /\ CsvIdle /\ TimeIdle /\ LocInit /\ UnitIdle

SpecLocator == InitLocator /\ [][LocNext]_vars

(***************************************************************************)
(* SpecClick: safe_click(element, max_attempts) for every behaviour of the *)
(* page over up to MaxAttempts attempts.                                   *)
(***************************************************************************)
\* What the page does in one attempt: the native path (scrollIntoView, wait
\* for clickable, element.click()) completes, raises
\* ElementClickInterceptedException, or raises another exception; `js`,
\* `focus`, `dispatch` tell whether the fallback scripts complete.
ClickOutcomes ==
    { o \in [native : {"ok", "intercepted", "error"},
             js : BOOLEAN, focus : BOOLEAN, dispatch : BOOLEAN] :
        /\ o.native = "ok" => ~o.js /\ ~o.focus /\ ~o.dispatch
        /\ o.native = "intercepted" => ~o.focus /\ ~o.dispatch
        /\ o.native = "error" => ~o.js }

\* Which click of the attempt completed without error ("none" if none did).
Completed(o) ==
    IF o.native = "ok" THEN "click"
    ELSE IF o.native = "intercepted" THEN (IF o.js THEN "js" ELSE "none")
    ELSE IF o.focus THEN "focus"
    ELSE IF o.dispatch THEN "dispatch"
    ELSE "none"

safe_click_attempt_no_fallback(o) ==
    IF o.native = "ok" THEN "return_true" ELSE "retry"

\* The body of `for attempt in range(max_attempts)`.
safe_click_attempt(o) ==
    IF o.native = "ok" THEN "return_true"
    ELSE IF o.native = "intercepted"
         THEN (IF o.js THEN "return_true" ELSE "retry")
         ELSE IF o.focus THEN "return_true"
              ELSE IF o.dispatch THEN "return_true"
              ELSE "retry"

\* max_attempts is Len(click_env).
ClickInit ==
    /\ click_env \in UNION {[1..n -> ClickOutcomes] : n \in 0..MaxAttempts}
    /\ click_attempt = 0
    /\ click_log = <<>>
    /\ click_result = "pending"

ClickAttempt ==
    /\ click_result = "pending"
    /\ click_attempt < Len(click_env)
    /\ LET o == click_env[click_attempt + 1] IN
        /\ click_log' = Append(click_log, Completed(o))
        /\ IF safe_click_attempt(o) = "return_true"
           THEN click_result' = "True" /\ UNCHANGED click_attempt
           ELSE click_attempt' = click_attempt + 1 /\ UNCHANGED click_result
    /\ UNCHANGED click_env
    /\ UNCHANGED exceptClick

\* The loop is exhausted: `return False`.
ClickReturnFalse ==
    /\ click_result = "pending"
    /\ click_attempt >= Len(click_env)
    /\ click_result' = "False"
    /\ UNCHANGED <<click_env, click_attempt, click_log>>
    /\ UNCHANGED exceptClick

ClickNext == ClickAttempt \/ ClickReturnFalse

BaseIdle == RunIdle /\ CsvIdle /\ TimeIdle /\ LocIdle

InitClick == BaseIdle /\ ClickInit /\ DlIdle /\ CfgIdle /\ CcIdle /\ LgIdle /\ IuIdle /\ NavIdle /\ TmIdle /\ KiIdle /\ DaIdle

SpecClick == InitClick /\ [][ClickNext]_vars

(***************************************************************************)
(* SpecDownload: ClipDownloader.download_clip_via_url for one clip, on     *)
(* every download directory holding up to MaxFiles files whose names can   *)
(* clash with the clip's.                                                  *)
(***************************************************************************)
\* Clip titles as character sequences: the second is the first followed by "_1".
Titles == { <<"a">>, <<"a", "_", "1">> }

DirExtensions == { <<".mp4">>, <<".webm">> }

\* f"{clip_info['title']}{extension}"
PlainName(title, extension) == title \o extension

\* f"{clip_info['title']}_{counter}" followed by the extension.
SuffixedName(title, counter, extension) ==
    title \o <<"_">> \o Decimal(counter) \o extension

DirNames ==
    {PlainName(t, e) : t \in Titles, e \in DirExtensions}
        \cup {SuffixedName(t, k, e) : t \in Titles, k \in 1..(MaxFiles - 1), e \in DirExtensions}

\* Content-Type of the response and the suffix of the URL path.
extension_of(content_type, url_suffix) ==
    IF content_type = "video/mp4" THEN <<".mp4">>
    ELSE IF content_type = "video/webm" THEN <<".webm">>
    ELSE IF content_type = "video/avi" THEN <<".avi">>
    ELSE IF url_suffix # <<>> THEN url_suffix ELSE <<".mp4">>

ClipInfos ==
    [title : Titles, has_url : BOOLEAN, request_ok : BOOLEAN,
     content_type : {"video/mp4", "video/webm", "other"},
     url_suffix : {<<>>, <<".webm">>}]

path_exists_never(dir, name) == FALSE

\* os.path.exists(filepath) for a path in self.download_dir.
path_exists(dir, name) == name \in dir

DlInit ==
    /\ dl_dir \in {d \in SUBSET DirNames : Cardinality(d) <= MaxFiles}
    /\ dl_info \in {c \in ClipInfos :
                        /\ ~c.has_url => c.request_ok /\ c.content_type = "other" /\ c.url_suffix = <<>>
                        /\ ~c.request_ok => c.content_type = "other" /\ c.url_suffix = <<>>}
    /\ dl_pc = "request"
    /\ dl_filename = <<>>
    /\ dl_counter = 1
    /\ dl_written = <<>>
    /\ dl_result = "pending"

\* No download URL, or requests.get / raise_for_status raises: return False.
\* Otherwise the extension is determined and the first file name is built.
DlRequest ==
    /\ dl_pc = "request"
    /\ IF ~dl_info.has_url \/ ~dl_info.request_ok
       THEN /\ dl_pc' = "returned"
            /\ dl_result' = "False"
            /\ UNCHANGED dl_filename
       ELSE /\ dl_pc' = "unique"
            /\ dl_filename' = PlainName(dl_info.title,
                                  extension_of(dl_info.content_type, dl_info.url_suffix))
            /\ UNCHANGED dl_result
    /\ UNCHANGED <<dl_dir, dl_info, dl_counter, dl_written>>
    /\ UNCHANGED exceptDl

\* One iteration of `while os.path.exists(filepath)`.
DlNextName ==
    /\ dl_pc = "unique"
    /\ path_exists(dl_dir, dl_filename)
    /\ dl_filename' = SuffixedName(dl_info.title, dl_counter,
                          extension_of(dl_info.content_type, dl_info.url_suffix))
    /\ dl_counter' = dl_counter + 1
    /\ UNCHANGED <<dl_dir, dl_info, dl_pc, dl_written, dl_result>>
    /\ UNCHANGED exceptDl

\* The loop ends: open(filepath, 'wb'), write the chunks, return True.
DlWrite ==
    /\ dl_pc = "unique"
    /\ ~path_exists(dl_dir, dl_filename)
    /\ dl_written' = Append(dl_written, [name |-> dl_filename, dir |-> dl_dir])
    /\ dl_dir' = dl_dir \cup {dl_filename}
    /\ dl_pc' = "returned"
    /\ dl_result' = "True"
    /\ UNCHANGED <<dl_info, dl_filename, dl_counter>>
    /\ UNCHANGED exceptDl

DlNext == DlRequest \/ DlNextName \/ DlWrite

InitDownload == BaseIdle /\ ClickIdle /\ DlInit /\ CfgIdle /\ CcIdle /\ LgIdle /\ IuIdle /\ NavIdle /\ TmIdle /\ KiIdle /\ DaIdle

SpecDownload == InitDownload /\ [][DlNext]_vars

(***************************************************************************)
(* SpecConfig: the binding of config.CONFIG when run_automation imports    *)
(* config, then main: parse_arguments, the assignment to                   *)
(* os.environ['CLIPSCUTTER_ENV'], and the construction of the runner.      *)
(***************************************************************************)
S_development == <<"d", "e", "v", "e", "l", "o", "p", "m", "e", "n", "t">>
S_production == <<"p", "r", "o", "d", "u", "c", "t", "i", "o", "n">>
S_testing == <<"t", "e", "s", "t", "i", "n", "g">>
S_PRODUCTION == <<"P", "R", "O", "D", "U", "C", "T", "I", "O", "N">>
S_Testing == <<"T", "e", "s", "t", "i", "n", "g">>
S_staging == <<"s", "t", "a", "g", "i", "n", "g">>
Unset == <<"unset">>
Absent == <<"absent">>

UpperLower ==
    { <<"P", "p">>, <<"R", "r">>, <<"O", "o">>, <<"D", "d">>, <<"U", "u">>,
      <<"C", "c">>, <<"T", "t">>, <<"I", "i">>, <<"N", "n">> }

LowerChar(c) ==
    IF \E p \in UpperLower : p[1] = c
    THEN (CHOOSE p \in UpperLower : p[1] = c)[2]
    ELSE c

\* str.lower()
lower(s) == [k \in 1..Len(s) |-> LowerChar(s[k])]

\* os.getenv('CLIPSCUTTER_ENV', 'development')
getenv(environ) == IF environ = Unset THEN S_development ELSE environ

\* config.get_config
get_config(environ) ==
    LET env == lower(getenv(environ)) IN
    IF env = S_production THEN "ProductionConfig"
    ELSE IF env = S_testing THEN "TestingConfig"
    ELSE "DevelopmentConfig"

\* argparse: --config-env with choices and default='development'.
parse_config_env(argv) == IF argv = Absent THEN S_development ELSE argv

CfgInit ==
    /\ cfg_pc = "import"
    /\ cfg_environ \in {Unset, <<>>, S_development, S_production, S_testing,
                        S_PRODUCTION, S_Testing, S_staging}
    /\ cfg_argv \in {Absent, S_development, S_production, S_testing}
    /\ cfg_args = <<>>
    /\ CONFIG = "unbound"
    /\ runner_config = "unbound"

\* run_automation.py: `from config import CONFIG`, which runs config.py's
\* `CONFIG = get_config()`.
CfgImport ==
    /\ cfg_pc = "import"
    /\ CONFIG' = get_config(cfg_environ)
    /\ cfg_pc' = "parse"
    /\ UNCHANGED <<cfg_environ, cfg_argv, cfg_args, runner_config>>
    /\ UNCHANGED exceptCfg

\* main: args = parse_arguments()
CfgParseArguments ==
    /\ cfg_pc = "parse"
    /\ cfg_args' = parse_config_env(cfg_argv)
    /\ cfg_pc' = "set"
    /\ UNCHANGED <<cfg_environ, cfg_argv, CONFIG, runner_config>>
    /\ UNCHANGED exceptCfg

\* main: os.environ['CLIPSCUTTER_ENV'] = args.config_env
CfgSetEnviron ==
    /\ cfg_pc = "set"
    /\ cfg_environ' = cfg_args
    /\ cfg_pc' = "construct"
    /\ UNCHANGED <<cfg_argv, cfg_args, CONFIG, runner_config>>
    /\ UNCHANGED exceptCfg

\* main: runner = ClipScutterRunner(args), whose __init__ has self.config = CONFIG.
CfgConstructRunner ==
    /\ cfg_pc = "construct"
    /\ runner_config' = CONFIG
    /\ cfg_pc' = "running"
    /\ UNCHANGED <<cfg_environ, cfg_argv, cfg_args, CONFIG>>
    /\ UNCHANGED exceptCfg

CfgNext == CfgImport \/ CfgParseArguments \/ CfgSetEnviron \/ CfgConstructRunner

InitConfig == BaseIdle /\ ClickIdle /\ DlIdle /\ CfgInit /\ CcIdle /\ LgIdle /\ IuIdle /\ NavIdle /\ TmIdle /\ KiIdle /\ DaIdle

SpecConfig == InitConfig /\ [][CfgNext]_vars

(***************************************************************************)
(* SpecCreate: one call of create_clip, statement by statement, for every  *)
(* value of navigate_to_controls and every content of the page, with up to *)
(* MaxOldClips clips already in the clips list.                            *)
(***************************************************************************)
\* What navigate_to_controls meets: the Controls element is not found, the
\* click on it fails, or it is clicked and the duration pickers are then seen
\* ("opened_ready") or not seen in three looks ("opened_not_ready").
ControlsOutcomes == {"not_found", "click_failed", "opened_ready", "opened_not_ready"}

\* navigate_to_controls: its return value.
navigate_to_controls(controls) ==
    IF controls = "not_found" THEN FALSE
    ELSE IF controls = "click_failed" THEN FALSE
    ELSE IF controls = "opened_ready" THEN TRUE
    ELSE TRUE

\* When the clip of this creation action shows in the clips list: before
\* fast_wait_and_download counts the list ("early"), during its polling
\* ("polled"), or not within its timeout ("never").
Appearances == {"early", "polled", "never"}

\* The page create_clip works on. Fields a path never reads have one value.
CreateEnvs ==
    { e \in [navigate_to_controls : BOOLEAN,
             controls : ControlsOutcomes \cup {"none"},
             picker : BOOLEAN,
             start : {"set", "set_js", "no_inputs", "raise"},
             end : {"set", "set_js", "set_refresh", "fail"},
             create_button : BOOLEAN,
             click_ok : BOOLEAN,
             old_clips : 0..MaxOldClips,
             appear : Appearances] :
        /\ e.navigate_to_controls <=> e.controls # "none"
        /\ ~e.picker => e.start = "set" /\ e.end = "set"
        /\ e.start = "raise" => e.end = "set"
        /\ (e.start = "raise" \/ e.end = "fail") => ~e.create_button
        /\ ~e.create_button => ~e.click_ok
        /\ ~e.click_ok => e.old_clips = 0 /\ e.appear = "never" }

\* fast_wait_and_download: initial_clip_count, counted when it is entered,
\* which is after the click on the creation control.
initial_clip_count(e) == e.old_clips + (IF e.appear = "early" THEN 1 ELSE 0)

\* fast_wait_and_download: the highest current_clip_count its polling sees.
current_clip_count(e) == e.old_clips + (IF e.appear = "never" THEN 0 ELSE 1)

\* What the waits see, in the terms of ClipEnvs.
ArtifactOf(e) ==
    IF current_clip_count(e) > initial_clip_count(e) THEN "new"
    ELSE IF current_clip_count(e) > 0 THEN "old_only"
    ELSE "none"

\* The clip whose download button is clicked: the topmost of the list, which
\* is the clip of this action if it has appeared and an older clip if not.
TopmostClip(e) == IF e.appear = "never" THEN "download_old" ELSE "download_new"

CcInit ==
    /\ cc_env \in CreateEnvs
    /\ cc_pc = "navigate"
    /\ cc_log = <<>>
    /\ cc_result = "pending"

CcReturn(value) == cc_pc' = "returned" /\ cc_result' = value

\* `if navigate_to_controls:` navigate_to_controls(), whose failure is only
\* logged, then enable_controls_interface().
CcNavigateToControls ==
    /\ cc_pc = "navigate"
    /\ cc_log' = IF cc_env.navigate_to_controls
                 THEN Append(cc_log, IF navigate_to_controls(cc_env.controls)
                                     THEN "controls_true" ELSE "controls_false")
                 ELSE cc_log
    /\ cc_pc' = "find_picker"
    /\ UNCHANGED <<cc_env, cc_result>>
    /\ UNCHANGED exceptCc

\* The search for the duration picker containers (up to five looks after a
\* controls navigation, one otherwise) and `if len(duration_containers) >= 2`.
CcFindPicker ==
    /\ cc_pc = "find_picker"
    /\ cc_pc' = IF cc_env.picker THEN "start_time" ELSE "fallback_create"
    /\ UNCHANGED <<cc_env, cc_log, cc_result>>
    /\ UNCHANGED exceptCc

\* The start time: skipped with fewer than three inputs, typed, set by the
\* JavaScript fallback, or the exception is raised again and create_clip's
\* handler returns False.
CcSetStart ==
    /\ cc_pc = "start_time"
    /\ IF cc_env.start = "raise"
       THEN CcReturn("False") /\ UNCHANGED cc_log
       ELSE /\ cc_log' = IF cc_env.start = "no_inputs"
                         THEN cc_log ELSE Append(cc_log, "start_set")
            /\ cc_pc' = "end_time"
            /\ UNCHANGED cc_result
    /\ UNCHANGED cc_env
    /\ UNCHANGED exceptCc

\* A bug create_clip does not have: when no method sets the end time the
\* failure is only logged and the creation control is looked for.
CcSetEndUnchecked ==
    /\ cc_pc = "end_time"
    /\ cc_log' = IF cc_env.end = "fail" THEN cc_log ELSE Append(cc_log, "end_set")
    /\ cc_pc' = "create"
    /\ UNCHANGED <<cc_env, cc_result>>
    /\ UNCHANGED exceptCc

\* The end time: set by one of the three methods, else `return False`.
CcSetEnd ==
    /\ cc_pc = "end_time"
    /\ IF cc_env.end = "fail"
       THEN CcReturn("False") /\ UNCHANGED cc_log
       ELSE /\ cc_log' = Append(cc_log, "end_set")
            /\ cc_pc' = "create"
            /\ UNCHANGED cc_result
    /\ UNCHANGED cc_env
    /\ UNCHANGED exceptCc

\* The creation control after the times: not found (return True), the click
\* fails (return False), or it is clicked.
CcClickCreate ==
    /\ cc_pc = "create"
    /\ IF ~cc_env.create_button THEN CcReturn("True") /\ UNCHANGED cc_log
       ELSE IF ~cc_env.click_ok THEN CcReturn("False") /\ UNCHANGED cc_log
       ELSE /\ cc_log' = Append(cc_log, "create_clicked")
            /\ cc_pc' = "fast_wait_and_download"
            /\ UNCHANGED cc_result
    /\ UNCHANGED cc_env
    /\ UNCHANGED exceptCc

\* fast_wait_and_download and, on its timeout, download_latest_clip;
\* create_clip returns True whatever they return.
CcFastWaitAndDownload ==
    /\ cc_pc = "fast_wait_and_download"
    /\ cc_log' = IF current_clip_count(cc_env) > initial_clip_count(cc_env)
                 THEN Append(cc_log, "download_new")
                 ELSE IF download_latest_clip(ArtifactOf(cc_env))
                      THEN Append(cc_log, TopmostClip(cc_env))
                      ELSE cc_log
    /\ CcReturn(IF fast_wait_and_download(ArtifactOf(cc_env)) THEN "True" ELSE "True")
    /\ UNCHANGED cc_env
    /\ UNCHANGED exceptCc

\* No duration picker: the creation control is looked for and clicked at once.
CcFallbackCreate ==
    /\ cc_pc = "fallback_create"
    /\ IF ~cc_env.create_button THEN CcReturn("True") /\ UNCHANGED cc_log
       ELSE IF ~cc_env.click_ok THEN CcReturn("False") /\ UNCHANGED cc_log
       ELSE /\ cc_log' = Append(cc_log, "create_clicked")
            /\ cc_pc' = "wait_for_clip_creation"
            /\ UNCHANGED cc_result
    /\ UNCHANGED cc_env
    /\ UNCHANGED exceptCc

\* `return self.wait_for_clip_creation()`
CcWaitForClipCreation ==
    /\ cc_pc = "wait_for_clip_creation"
    /\ CcReturn(IF wait_for_clip_creation(ArtifactOf(cc_env)) THEN "True" ELSE "False")
    /\ UNCHANGED <<cc_env, cc_log>>
    /\ UNCHANGED exceptCc

CcNext ==
    \/ CcNavigateToControls
    \/ CcFindPicker
    \/ CcSetStart
    \/ CcSetEnd
    \/ CcClickCreate
    \/ CcFastWaitAndDownload
    \/ CcFallbackCreate
    \/ CcWaitForClipCreation

InitCreate == BaseIdle /\ ClickIdle /\ DlIdle /\ CfgIdle /\ CcInit /\ LgIdle /\ IuIdle /\ NavIdle /\ TmIdle /\ KiIdle /\ DaIdle

SpecCreate == InitCreate /\ [][CcNext]_vars

(***************************************************************************)
(* SpecLogin: one call of ClipScutterWebAutomation.perform_login, statement *)
(* by statement, for every content of the login page.                      *)
(***************************************************************************)
LgInit ==
    /\ lg_env \in LoginEnvs
    /\ lg_pc = "email"
    /\ lg_log = <<>>
    /\ lg_result = "pending"

LgReturn(value) == lg_pc' = "returned" /\ lg_result' = value

\* The email field: not found, `return False`; else cleared and filled.
LgEnterEmail ==
    /\ lg_pc = "email"
    /\ IF ~lg_env.email
       THEN LgReturn("False") /\ UNCHANGED lg_log
       ELSE /\ lg_log' = Append(lg_log, "email_entered")
            /\ lg_pc' = "password"
            /\ UNCHANGED lg_result
    /\ UNCHANGED lg_env
    /\ UNCHANGED exceptLg

\* The password field: not found, `return False`; else cleared and filled.
LgEnterPassword ==
    /\ lg_pc = "password"
    /\ IF ~lg_env.password
       THEN LgReturn("False") /\ UNCHANGED lg_log
       ELSE /\ lg_log' = Append(lg_log, "password_entered")
            /\ lg_pc' = "submit"
            /\ UNCHANGED lg_result
    /\ UNCHANGED lg_env
    /\ UNCHANGED exceptLg

\* The submit button is clicked, or Enter is sent to the password field; an
\* exception of an interaction is caught by perform_login, which returns False.
LgSubmit ==
    /\ lg_pc = "submit"
    /\ IF lg_env.raises
       THEN LgReturn("False") /\ UNCHANGED lg_log
       ELSE /\ lg_log' = Append(lg_log, IF lg_env.submit = "clicked"
                                        THEN "submit_clicked" ELSE "enter_sent")
            /\ lg_pc' = "check_login_success"
            /\ UNCHANGED lg_result
    /\ UNCHANGED lg_env
    /\ UNCHANGED exceptLg

\* `return self.check_login_success()`
LgCheckLoginSuccess ==
    /\ lg_pc = "check_login_success"
    /\ lg_log' = Append(lg_log, lg_env.check)
    /\ LgReturn(IF check_login_success(lg_env.check) THEN "True" ELSE "False")
    /\ UNCHANGED lg_env
    /\ UNCHANGED exceptLg

LgNext == LgEnterEmail \/ LgEnterPassword \/ LgSubmit \/ LgCheckLoginSuccess

InitLogin == BaseIdle /\ ClickIdle /\ DlIdle /\ CfgIdle /\ CcIdle /\ LgInit /\ IuIdle /\ NavIdle /\ TmIdle /\ KiIdle /\ DaIdle

SpecLogin == InitLogin /\ [][LgNext]_vars

(***************************************************************************)
(* SpecUrl: one call of input_youtube_url, statement by statement, for     *)
(* every content of the page and every value of self.current_url.          *)
(***************************************************************************)
IuInit ==
    /\ iu_env \in UrlEnvs
    /\ iu_submit \in {"clicked", "click_failed", "no_button"}
    /\ iu_url \in {UrlA, UrlB}
    /\ iu_before \in {NoneUrl, UrlA, UrlB}
    /\ iu_current_url = iu_before
    /\ iu_pc = "find_input"
    /\ iu_log = <<>>
    /\ iu_result = "pending"

IuReturn(value) == iu_pc' = "returned" /\ iu_result' = value

\* The URL field: not found, `return False`.
IuFindInput ==
    /\ iu_pc = "find_input"
    /\ IF ~iu_env.input_found
       THEN IuReturn("False")
       ELSE iu_pc' = "submit" /\ UNCHANGED iu_result
    /\ UNCHANGED <<iu_env, iu_submit, iu_url, iu_before, iu_current_url, iu_log>>
    /\ UNCHANGED exceptIu

\* The URL is typed and submitted by the button or by Enter; an exception of
\* an interaction is caught by input_youtube_url, which returns False.
IuSubmit ==
    /\ iu_pc = "submit"
    /\ IF iu_env.raises
       THEN IuReturn("False") /\ UNCHANGED iu_log
       ELSE /\ iu_log' = Append(iu_log, IF iu_submit = "clicked"
                                        THEN "submit_clicked" ELSE "enter_sent")
            /\ iu_pc' = "wait_for_video_load"
            /\ UNCHANGED iu_result
    /\ UNCHANGED <<iu_env, iu_submit, iu_url, iu_before, iu_current_url>>
    /\ UNCHANGED exceptIu

\* `self.wait_for_video_load()`: its value is not used.
IuWaitForVideoLoad ==
    /\ iu_pc = "wait_for_video_load"
    /\ iu_log' = Append(iu_log, IF iu_env.loaded THEN "editor_loaded" ELSE "wait_timed_out")
    /\ iu_pc' = IF wait_for_video_load(iu_env.loaded) THEN "record" ELSE "record"
    /\ UNCHANGED <<iu_env, iu_submit, iu_url, iu_before, iu_current_url, iu_result>>
    /\ UNCHANGED exceptIu

\* `self.current_url = youtube_url` and `return True`.
IuRecord ==
    /\ iu_pc = "record"
    /\ iu_current_url' = input_youtube_url_current(iu_current_url, iu_url, iu_env)
    /\ IuReturn(IF input_youtube_url(iu_env) THEN "True" ELSE "False")
    /\ UNCHANGED <<iu_env, iu_submit, iu_url, iu_before, iu_log>>
    /\ UNCHANGED exceptIu

IuNext == IuFindInput \/ IuSubmit \/ IuWaitForVideoLoad \/ IuRecord

InitUrl == BaseIdle /\ ClickIdle /\ DlIdle /\ CfgIdle /\ CcIdle /\ LgIdle /\ IuInit /\ NavIdle /\ TmIdle /\ KiIdle /\ DaIdle

SpecUrl == InitUrl /\ [][IuNext]_vars

(***************************************************************************)
(* ClipScutterRunner.process_all_clips: which groups get a homepage reset  *)
(* and a URL submission.  process_all_clips is entered with the            *)
(* web_automation object in any state an earlier call may have left it,    *)
(* so current_url is None or the URL of a video.                           *)
(***************************************************************************)
\* The keys of a dict: no URL twice.
UrlOrders ==
    {u \in UNION {[1..n -> RunUrls] : n \in 1..3} :
        \A a, b \in 1..Len(u) : u[a] = u[b] => a = b}

\* A bug process_all_clips does not have: the homepage reset is never made.
current_url_is_not_None_skipped(cur) == FALSE

\* process_all_clips: `if self.web_automation.current_url is not None`.
current_url_is_not_None(cur) == cur # NoneUrl

NavInit ==
    /\ nav_urls \in UrlOrders
    /\ nav_gi = 1
    /\ nav_current_url \in {NoneUrl} \cup RunUrls
    /\ nav_pc = "group"
    /\ nav_before = <<>>
    /\ nav_log = <<>>

NavEvent(g, ev, ok) == [g |-> g, ev |-> ev, ok |-> ok]

\* The top of the loop over grouped_clips.items(): the check for the loaded
\* video, the homepage reset, the URL submission and its `continue`.
NavProcessGroup ==
    /\ nav_pc = "group"
    /\ nav_gi <= Len(nav_urls)
    /\ nav_before' = Append(nav_before, nav_current_url)
    /\ LET url == nav_urls[nav_gi] IN
       IF check_if_same_video_loaded(nav_current_url, url)
       THEN /\ nav_pc' = "clips"
            /\ UNCHANGED <<nav_gi, nav_current_url, nav_log>>
       ELSE \E env \in UrlEnvs :
               LET reset == current_url_is_not_None(nav_current_url)
                   cur1 == IF reset THEN reset_for_new_video(nav_current_url)
                           ELSE nav_current_url
                   log1 == IF reset THEN Append(nav_log, NavEvent(nav_gi, "reset", TRUE))
                           ELSE nav_log
                   ok == input_youtube_url(env)
               IN  /\ nav_log' = Append(log1, NavEvent(nav_gi, "submit", ok))
                   /\ nav_current_url' = input_youtube_url_current(cur1, url, env)
                   /\ IF ok
                      THEN nav_pc' = "clips" /\ nav_gi' = nav_gi
                      ELSE nav_pc' = "group" /\ nav_gi' = nav_gi + 1
    /\ UNCHANGED nav_urls
    /\ UNCHANGED exceptNav

\* The loop over enumerate(clips, 1) of one group, and the step to the next group.
NavCreateClips ==
    /\ nav_pc = "clips"
    /\ nav_log' = Append(nav_log, NavEvent(nav_gi, "create", TRUE))
    /\ nav_gi' = nav_gi + 1
    /\ nav_pc' = "group"
    /\ UNCHANGED <<nav_urls, nav_current_url, nav_before>>
    /\ UNCHANGED exceptNav

\* `return True` after the loop.
NavReturn ==
    /\ nav_pc = "group"
    /\ nav_gi > Len(nav_urls)
    /\ nav_pc' = "returned"
    /\ UNCHANGED <<nav_urls, nav_gi, nav_current_url, nav_before, nav_log>>
    /\ UNCHANGED exceptNav

NavNext == NavProcessGroup \/ NavCreateClips \/ NavReturn

InitNav == BaseIdle /\ ClickIdle /\ DlIdle /\ CfgIdle /\ CcIdle /\ LgIdle /\ IuIdle /\ NavInit /\ TmIdle /\ KiIdle /\ DaIdle

SpecNav == InitNav /\ [][NavNext]_vars

(***************************************************************************)
(* SpecTerm: process_all_clips with the loops of create_clip,              *)
(* navigate_to_controls, safe_click and fast_wait_and_download unrolled.   *)
(* Every call to the driver returns or raises; the page decides the        *)
(* outcome of every attempt.  Time is counted in tenths of a second.       *)
(***************************************************************************)
\* range(3) in navigate_to_controls, range(5), range(3) and range(3) in
\* create_clip, the default max_attempts of safe_click.
ControlsChecks == 3
PickerRetries == 5
StartAttempts == 3
EndAttempts == 3
DefaultMaxAttempts == 3

\* fast_wait_and_download(timeout=15), in seconds.
FastTimeout == 15

\* time.sleep(0.3) at the end of each poll, in tenths of a second.
PollSleep == 3

\* No poll makes more iterations than this.
MaxPolls == (FastTimeout * 10) \div PollSleep + 1

\* A bug fast_wait_and_download does not have: the poll compares against a
\* start_time that is taken anew in every iteration.
poll_elapsed_restarted(elapsed, spent) == 0

\* time.time() - start_time after one more iteration of the poll that spent
\* `spent` tenths in the driver and then slept.
poll_elapsed(elapsed, spent) == elapsed + spent + PollSleep

TmInit ==
    /\ tm_sizes \in UNION {[1..n -> 1..2] : n \in 1..2}
    /\ tm_gi = 1
    /\ tm_ci = 1
    /\ tm_pc = "group"
    /\ tm_k = 0
    /\ tm_elapsed = 0
    /\ tm_timed_out = FALSE

TmGoto(next) ==
    /\ tm_pc' = next
    /\ tm_k' = 0
    /\ UNCHANGED <<tm_sizes, tm_gi, tm_ci, tm_elapsed, tm_timed_out>>
    /\ UNCHANGED exceptTm

\* `for attempt in range(limit)`: an iteration that succeeds leaves the loop
\* for `done`, one that fails goes to the next iteration, and the loop that
\* has made `limit` iterations is left for one of `exhausted`.
TmLoop(here, limit, done, exhausted) ==
    /\ tm_pc = here
    /\ IF tm_k < limit
       THEN \E ok \in BOOLEAN :
               IF ok THEN TmGoto(done)
               ELSE /\ tm_k' = tm_k + 1
                    /\ UNCHANGED <<tm_sizes, tm_gi, tm_ci, tm_pc, tm_elapsed, tm_timed_out>>
                    /\ UNCHANGED exceptTm
       ELSE \E next \in exhausted : TmGoto(next)

\* The top of the loop over grouped_clips.items(): the URL is loaded, or its
\* submission fails and the loop continues with the next group.
TmProcessGroup ==
    /\ tm_pc = "group"
    /\ tm_gi <= Len(tm_sizes)
    /\ \E ok \in BOOLEAN :
          IF ok THEN /\ tm_pc' = "clip"
                     /\ tm_ci' = 1
                     /\ tm_gi' = tm_gi
                ELSE /\ tm_pc' = "group"
                     /\ tm_ci' = tm_ci
                     /\ tm_gi' = tm_gi + 1
    /\ UNCHANGED <<tm_sizes, tm_k, tm_elapsed, tm_timed_out>>
    /\ UNCHANGED exceptTm

\* create_clip is called: navigate_to_controls for the clips after the first.
TmCreateClip ==
    /\ tm_pc = "clip"
    /\ \E found \in BOOLEAN :
          TmGoto(IF tm_ci > 1
                 THEN (IF found THEN "controls_click" ELSE "picker_retry")
                 ELSE (IF found THEN "start_time" ELSE "other_methods"))

\* navigate_to_controls: safe_click(controls_element).
TmClickControls ==
    TmLoop("controls_click", DefaultMaxAttempts, "controls_check", {"picker_retry"})

\* navigate_to_controls: the check that the duration picker is available.
TmCheckControls ==
    TmLoop("controls_check", ControlsChecks, "picker_retry", {"picker_retry"})

\* create_clip: the wait for the duration picker after the Controls navigation.
TmPickerRetry ==
    TmLoop("picker_retry", PickerRetries, "start_time", {"other_methods"})

\* create_clip: the start time, its JavaScript fallback after the last attempt.
TmSetStart ==
    TmLoop("start_time", StartAttempts, "end_time", {"end_time", "clip_done"})

\* create_clip: the end time, the JavaScript fallback and the refresh approach
\* after the last attempt.
TmSetEnd ==
    TmLoop("end_time", EndAttempts, "create_click", {"create_click", "clip_done"})

\* create_clip without a duration picker: sliders or text inputs, no loop of
\* attempts; the creation control is clicked or create_clip returns.
TmOtherMethods ==
    /\ tm_pc = "other_methods"
    /\ \E next \in {"create_click", "clip_done"} : TmGoto(next)

\* create_clip: safe_click(create_button).
TmClickCreate ==
    TmLoop("create_click", DefaultMaxAttempts, "poll", {"clip_done"})

\* fast_wait_and_download: one iteration of `while time.time() - start_time <
\* timeout`, or the fallback download once the timeout is reached.
TmPoll ==
    /\ tm_pc = "poll"
    /\ tm_k <= MaxPolls
    /\ IF tm_elapsed < FastTimeout * 10
       THEN \E new_clip \in BOOLEAN, spent \in {0, 1} :
               IF new_clip
               THEN /\ tm_pc' = "clip_done"
                    /\ tm_k' = 0
                    /\ tm_elapsed' = 0
                    /\ UNCHANGED tm_timed_out
               ELSE /\ tm_pc' = "poll"
                    /\ tm_k' = tm_k + 1
                    /\ tm_elapsed' = poll_elapsed(tm_elapsed, spent)
                    /\ UNCHANGED tm_timed_out
       ELSE /\ tm_pc' = "clip_done"
            /\ tm_k' = 0
            /\ tm_elapsed' = 0
            /\ tm_timed_out' = TRUE
    /\ UNCHANGED <<tm_sizes, tm_gi, tm_ci>>
    /\ UNCHANGED exceptTm

\* create_clip has returned: the next clip of the group, or the next group.
TmClipDone ==
    /\ tm_pc = "clip_done"
    /\ IF tm_ci < tm_sizes[tm_gi]
       THEN /\ tm_ci' = tm_ci + 1
            /\ tm_pc' = "clip"
            /\ tm_gi' = tm_gi
       ELSE /\ tm_ci' = 1
            /\ tm_pc' = "group"
            /\ tm_gi' = tm_gi + 1
    /\ UNCHANGED <<tm_sizes, tm_k, tm_elapsed, tm_timed_out>>
    /\ UNCHANGED exceptTm

\* `return True` after the loop over the groups.
TmReturn ==
    /\ tm_pc = "group"
    /\ tm_gi > Len(tm_sizes)
    /\ tm_pc' = "returned"
    /\ UNCHANGED <<tm_sizes, tm_gi, tm_ci, tm_k, tm_elapsed, tm_timed_out>>
    /\ UNCHANGED exceptTm

TmNext ==
    \/ TmProcessGroup
    \/ TmCreateClip
    \/ TmClickControls
    \/ TmCheckControls
    \/ TmPickerRetry
    \/ TmSetStart
    \/ TmSetEnd
    \/ TmOtherMethods
    \/ TmClickCreate
    \/ TmPoll
    \/ TmClipDone
    \/ TmReturn

InitTerm == BaseIdle /\ ClickIdle /\ DlIdle /\ CfgIdle /\ CcIdle /\ LgIdle /\ IuIdle /\ NavIdle /\ TmInit /\ KiIdle /\ DaIdle

\* The program is one thread: a step that can be taken is taken.
SpecTerm == InitTerm /\ [][TmNext]_vars /\ WF_vars(TmNext)

(***************************************************************************)
(* SpecInterrupt: run from process_all_clips on, with at most one          *)
(* KeyboardInterrupt raised while a clip is being created.  The interrupt  *)
(* is raised in the statement the main thread is executing, so what        *)
(* happens to it depends on the handlers around that statement.            *)
(***************************************************************************)
\* Statements of the web layer and of process_all_clips, by the innermost
\* handler around them: `except Exception` (or a named exception) or a bare
\* `except:`.
InterruptRegions ==
    {"safe_click_attempt",        \* safe_click: except Exception
     "create_clip_body",          \* create_clip: except Exception
     "poll_sleep",                \* fast_wait_and_download: time.sleep(0.3)
     "delay_between_clips",       \* process_all_clips: time.sleep
     "enable_end_inputs",         \* create_clip: bare except, pass
     "initial_clip_count",        \* fast_wait_and_download: bare except
     "download_button_click",     \* fast_wait_and_download: bare except, JS click
     "latest_button_click",       \* fast_wait_and_download: bare except, JS click
     "creation_poll"}             \* wait_for_clip_creation: bare except, continue

\* Whether the handlers around the statement catch a KeyboardInterrupt, which
\* is a BaseException and no Exception.
catches_keyboard_interrupt(region) ==
    region \in {"enable_end_inputs", "initial_clip_count", "download_button_click",
                "latest_button_click", "creation_poll"}

KiInit ==
    /\ ki_n \in 1..MaxClips
    /\ ki_i = 1
    /\ ki_pc = "process_all_clips"
    /\ ki_calls = 0
    /\ ki_interrupt_at = 0
    /\ ki_region = "none"
    /\ ki_exit = -1
    /\ ki_summary = FALSE

\* process_all_clips calls create_clip for the next clip.
KiCreateClip ==
    /\ ki_pc = "process_all_clips"
    /\ ki_i <= ki_n
    /\ ki_calls' = ki_calls + 1
    /\ ki_pc' = "create_clip"
    /\ UNCHANGED <<ki_n, ki_i, ki_interrupt_at, ki_region, ki_exit, ki_summary>>
    /\ UNCHANGED exceptKi

\* KeyboardInterrupt is raised in a statement of the clip's creation: a bare
\* except handles it and the creation goes on; otherwise it propagates through
\* every `except Exception` to run.
KiKeyboardInterrupt ==
    /\ ki_pc = "create_clip"
    /\ ki_interrupt_at = 0
    /\ \E region \in InterruptRegions :
          /\ ki_region' = region
          /\ ki_pc' = IF catches_keyboard_interrupt(region)
                      THEN "create_clip" ELSE "except_KeyboardInterrupt"
    /\ ki_interrupt_at' = ki_i
    /\ UNCHANGED <<ki_n, ki_i, ki_calls, ki_exit, ki_summary>>
    /\ UNCHANGED exceptKi

\* create_clip returns and the inner loop goes to the next clip.
KiClipDone ==
    /\ ki_pc = "create_clip"
    /\ ki_i' = ki_i + 1
    /\ ki_pc' = "process_all_clips"
    /\ UNCHANGED <<ki_n, ki_calls, ki_interrupt_at, ki_region, ki_exit, ki_summary>>
    /\ UNCHANGED exceptKi

\* process_all_clips returns True, download_all_clips runs, `return 0`.
KiReturn0 ==
    /\ ki_pc = "process_all_clips"
    /\ ki_i > ki_n
    /\ ki_exit' = 0
    /\ ki_pc' = "finally"
    /\ UNCHANGED <<ki_n, ki_i, ki_calls, ki_interrupt_at, ki_region, ki_summary>>
    /\ UNCHANGED exceptKi

\* run: `except KeyboardInterrupt: return 1`.
KiReturn1 ==
    /\ ki_pc = "except_KeyboardInterrupt"
    /\ ki_exit' = 1
    /\ ki_pc' = "finally"
    /\ UNCHANGED <<ki_n, ki_i, ki_calls, ki_interrupt_at, ki_region, ki_summary>>
    /\ UNCHANGED exceptKi

\* run: `finally: self.print_final_summary(); self.cleanup()`.
KiFinally ==
    /\ ki_pc = "finally"
    /\ ki_summary' = TRUE
    /\ ki_pc' = "exited"
    /\ UNCHANGED <<ki_n, ki_i, ki_calls, ki_interrupt_at, ki_region, ki_exit>>
    /\ UNCHANGED exceptKi

KiNext ==
    \/ KiCreateClip
    \/ KiKeyboardInterrupt
    \/ KiClipDone
    \/ KiReturn0
    \/ KiReturn1
    \/ KiFinally

InitInterrupt == BaseIdle /\ ClickIdle /\ DlIdle /\ CfgIdle /\ CcIdle /\ LgIdle /\ IuIdle /\ NavIdle /\ TmIdle /\ KiInit /\ DaIdle

SpecInterrupt == InitInterrupt /\ [][KiNext]_vars

(***************************************************************************)
(* SpecCsvRange: read_csv on files whose rows are well-formed and differ   *)
(* in the order of their two times.                                        *)
(***************************************************************************)
RangeRows ==
    { <<T_000010, T_000020, UrlA>>,
      <<T_000020, T_000010, UrlA>>,
      <<T_000010, T_000010, UrlB>>,
      <<T_000500_padded, T_000530, UrlB>>,
      <<T_000010, T_000020>> }

CsvRangeInit ==
    /\ csv_file \in UNION {[1..n -> RangeRows] : n \in 0..MaxRows}
    /\ csv_pc = "open"
    /\ row_num = 1
    /\ clips = <<>>
    /\ invalid_rows = <<>>
    /\ grouped_clips = <<>>
    /\ first_grouped = [groups |-> <<>>, input |-> <<>>]

InitCsvRange == RunIdle /\ CsvRangeInit /\ TimeIdle /\ LocIdle /\ UnitIdle

SpecCsvRange == InitCsvRange /\ [][CsvNext]_vars

(***************************************************************************)
(* SpecDownloadAll: ClipDownloader.download_all_clips on a clips page with *)
(* up to MaxClips clips, each with or without a download button and a      *)
(* download URL, for every outcome of each download and of the report.     *)
(***************************************************************************)
\* What extract_clip_info found for a clip.
ClipElements == [download_button : BOOLEAN, download_url : BOOLEAN]

\* A bug download_all_clips does not have: a failed button download is counted
\* before the URL download is tried.
download_one_counts_each_try(clip, via_button, via_url) ==
    IF clip.download_button
    THEN IF via_button THEN [downloaded |-> 1, failed |-> 0]
         ELSE IF clip.download_url /\ via_url THEN [downloaded |-> 1, failed |-> 1]
         ELSE [downloaded |-> 0, failed |-> 1]
    ELSE IF clip.download_url /\ via_url THEN [downloaded |-> 1, failed |-> 0]
    ELSE [downloaded |-> 0, failed |-> 1]

\* One iteration of the loop over the clips: what it adds to downloaded_count
\* and to failed_count, given what download_clip_via_button and
\* download_clip_via_url return.
download_one(clip, via_button, via_url) ==
    LET success ==
            IF clip.download_button
            THEN (via_button \/ (clip.download_url /\ via_url))
            ELSE (clip.download_url /\ via_url)
    IN  [downloaded |-> IF success THEN 1 ELSE 0,
         failed |-> IF success THEN 0 ELSE 1]

\* A bug save_download_report does not have: the error of the write is not caught.
save_download_report_uncaught(file) ==
    IF file = "writable" THEN "saved" ELSE "raise"

\* save_download_report: the report is written, or the error is logged.
save_download_report(file) ==
    IF file = "writable" THEN "saved" ELSE "logged"

DaInit ==
    /\ da_clips \in UNION {[1..n -> ClipElements] : n \in 0..MaxClips}
    /\ da_page \in {"ok", "unreachable"}
    /\ da_report_file \in {"writable", "unwritable"}
    /\ da_pc = "navigate"
    /\ da_i = 1
    /\ downloaded_count = 0
    /\ failed_count = 0
    /\ da_tally = <<>>
    /\ da_report = "none"
    /\ da_result = <<>>

DaReturn(result) == da_pc' = "returned" /\ da_result' = result

\* navigate_to_clips_page and find_all_clip_elements, with their early returns.
DaFindAllClips ==
    /\ da_pc = "navigate"
    /\ IF da_page # "ok"
       THEN DaReturn([success |-> FALSE])
       ELSE IF da_clips = <<>>
       THEN DaReturn([success |-> TRUE, total_clips |-> 0, downloaded |-> 0, failed |-> 0])
       ELSE da_pc' = "loop" /\ da_result' = da_result
    /\ UNCHANGED <<da_clips, da_page, da_report_file, da_i, downloaded_count,
                   failed_count, da_tally, da_report>>
    /\ UNCHANGED exceptDa

\* One iteration of `for clip_info in clips`.
DaDownloadClip ==
    /\ da_pc = "loop"
    /\ da_i <= Len(da_clips)
    /\ \E via_button \in BOOLEAN, via_url \in BOOLEAN :
          LET counted == download_one(da_clips[da_i], via_button, via_url)
              t1 == IF counted.downloaded = 1
                    THEN Append(da_tally, [clip |-> da_i, as |-> "downloaded"])
                    ELSE da_tally
              t2 == IF counted.failed = 1
                    THEN Append(t1, [clip |-> da_i, as |-> "failed"])
                    ELSE t1
          IN  /\ downloaded_count' = downloaded_count + counted.downloaded
              /\ failed_count' = failed_count + counted.failed
              /\ da_tally' = t2
    /\ da_i' = da_i + 1
    /\ UNCHANGED <<da_clips, da_page, da_report_file, da_pc, da_report, da_result>>
    /\ UNCHANGED exceptDa

\* After the loop: save_download_report, then the result; an exception ends in
\* the handler of download_all_clips.
DaSaveDownloadReport ==
    /\ da_pc = "loop"
    /\ da_i > Len(da_clips)
    /\ da_report' = save_download_report(da_report_file)
    /\ IF da_report' = "raise"
       THEN DaReturn([success |-> FALSE])
       ELSE DaReturn([success |-> TRUE, total_clips |-> Len(da_clips),
                      downloaded |-> downloaded_count, failed |-> failed_count])
    /\ UNCHANGED <<da_clips, da_page, da_report_file, da_i, downloaded_count,
                   failed_count, da_tally>>
    /\ UNCHANGED exceptDa

DaNext == DaFindAllClips \/ DaDownloadClip \/ DaSaveDownloadReport

InitDownloadAll == BaseIdle /\ ClickIdle /\ DlIdle /\ CfgIdle /\ CcIdle /\ LgIdle /\ IuIdle /\ NavIdle /\ TmIdle /\ KiIdle /\ DaInit

SpecDownloadAll == InitDownloadAll /\ [][DaNext]_vars

(***************************************************************************)
(* Properties.                                                             *)
(***************************************************************************)
Called(g, i) == \E k \in 1..Len(calls) : calls[k].g = g /\ calls[k].i = i

FailedCalls == {k \in 1..Len(calls) : ~calls[k].result}

SucceededCalls == {k \in 1..Len(calls) : calls[k].result}

\* The URL submission made for group h failed.
SubmissionFailed(h) == \E k \in 1..Len(submits) : submits[k].g = h /\ ~submits[k].ok

\* C1: when process_all_clips has finished, clips_created + failed_clips equals
\* total_clips, whatever the outcome of URL submission and of clip creation.
C1_AttemptedEqualsTotal ==
    process_result = "True" =>
        stats.clips_created + stats.failed_clips = stats.total_clips

\* C2 as stated: after a failed create_clip, create_clip is still invoked for
\* every later descriptor of the same group and for every descriptor of every
\* later group, and exactly the failed descriptors are counted as failed.
C2_ContinueOnErrorEveryLaterGroup ==
    /\ stats.failed_clips = Cardinality(FailedCalls)
    /\ process_result = "True" =>
          \A k \in FailedCalls :
             /\ \A j \in 1..Len(grouped[calls[k].g].clips) :
                   j > calls[k].i => Called(calls[k].g, j)
             /\ \A h \in 1..Len(grouped) :
                   h > calls[k].g => \A j \in 1..Len(grouped[h].clips) : Called(h, j)

\* C2 amended: after a failed create_clip, create_clip is still invoked for every
\* later descriptor of the same group and for every descriptor of every later
\* group whose own URL submission does not fail; the failure never ends the
\* group loop or the run (process_all_clips never returns False), and exactly
\* the failed descriptors are counted as failed.
C2_ContinueOnError ==
    /\ stats.failed_clips = Cardinality(FailedCalls)
    /\ stats.clips_created = Cardinality(SucceededCalls)
    /\ process_result # "False"
    /\ process_result = "True" =>
          \A k \in FailedCalls :
             /\ \A j \in 1..Len(grouped[calls[k].g].clips) :
                   j > calls[k].i => Called(calls[k].g, j)
             /\ \A h \in 1..Len(grouped) :
                   (h > calls[k].g /\ ~SubmissionFailed(h)) =>
                       \A j \in 1..Len(grouped[h].clips) : Called(h, j)

\* C2 witness: the run is over, the first clip of a group of two failed, the
\* second was still created, and a later group was processed too.
C2_Witness ==
    /\ process_result = "True"
    /\ \E k \in FailedCalls :
          /\ calls[k].i = 1
          /\ \E m \in SucceededCalls : calls[m].g = calls[k].g /\ calls[m].i = 2
          /\ \E m \in 1..Len(calls) : calls[m].g > calls[k].g

\* C3: a descriptor whose creation step times out is a failed item: create_clip
\* returns False for it.
C3_TimeoutIsFailure ==
    \A k \in 1..Len(calls) : calls[k].timeout => ~calls[k].result

\* C4: create_clip is invoked for a descriptor only while current_url equals
\* the descriptor's URL, and the inner loop runs only on the loaded URL.
C4_CreateOnlyOnLoadedUrl ==
    /\ \A k \in 1..Len(calls) : calls[k].cur = calls[k].url
    /\ pc = "clip" => current_url = grouped[gi].clips[ci].youtube_url

\* C4 witness: a clip was created after a homepage reset and after a failed
\* URL submission.
C4_Witness ==
    /\ resets >= 1
    /\ \E s \in 1..Len(submits) : ~submits[s].ok
    /\ \E k \in 1..Len(calls) : calls[k].g = 3 /\ calls[k].cur = calls[k].url

\* C5: once perform_login has reported failure, run is ending with exit code 1,
\* login was attempted once, and no URL submission, homepage reset, clip
\* creation or download has been performed.
C5_LoginFailureFatal ==
    /\ login_attempts <= 1
    /\ login_failed =>
          /\ pc \in {"finally", "cleanup", "exited"}
          /\ exit_code = 1
          /\ login_attempts = 1
          /\ submits = <<>>
          /\ resets = 0
          /\ calls = <<>>
          /\ download_runs = 0
          /\ process_result = "none"

\* C5 witness: run has returned after a failed login.
C5_Witness == login_failed /\ pc = "exited" /\ exit_code = 1

\* The clips of cl whose URL is url, in the order of cl.
ClipsOfUrl(cl, url) == SelectSeq(cl, LAMBDA c : c.youtube_url = url)

\* The positions at which a descriptor sits in the groups.
PlacesOf(c) ==
    {<<k, j>> \in (1..Len(grouped_clips)) \X (1..Len(clips)) :
        j <= Len(grouped_clips[k].clips) /\ grouped_clips[k].clips[j] = c}

PassesValidation(row) ==
    /\ Len(row) >= 3
    /\ validate_time_format(strip(row[1]))
    /\ validate_time_format(strip(row[2]))
    /\ validate_youtube_url(strip(row[3]))

RowNumbers(n) == [i \in 1..n |-> i]

\* C8: read_csv never aborts on a row: whatever rows were read so far, the
\* result holds exactly those that pass validation, in file order, each with
\* its 1-based position, and the rejected ones are recorded one by one.
C8_ReadCsvSkipsBadRows ==
    /\ csv_pc = "raised" => row_num = 1
    /\ csv_pc \in {"reading", "read", "grouped", "regrouped"} =>
          LET kept == SelectSeq(RowNumbers(row_num - 1),
                                LAMBDA i : PassesValidation(csv_file[i]))
              skipped == SelectSeq(RowNumbers(row_num - 1),
                                   LAMBDA i : ~PassesValidation(csv_file[i]))
          IN  /\ invalid_rows = skipped
              /\ Len(clips) = Len(kept)
              /\ \A k \in 1..Len(kept) :
                    /\ clips[k].row_number = kept[k]
                    /\ clips[k].start_time = strip(csv_file[kept[k]][1])
                    /\ clips[k].end_time = strip(csv_file[kept[k]][2])
                    /\ clips[k].youtube_url = strip(csv_file[kept[k]][3])
    /\ csv_pc \in {"read", "grouped", "regrouped"} => row_num = Len(csv_file) + 1

\* C8 witness: a file of three rows was read whose second row is bad; rows 1
\* and 3 were loaded.
C8_Witness ==
    /\ csv_pc = "read"
    /\ Len(csv_file) = 3
    /\ invalid_rows = <<2>>
    /\ Len(clips) = 2
    /\ clips[2].row_number = 3

\* C9: for a time string HH:MM:SS with MM, SS < 60, converting to seconds,
\* formatting and converting again gives the seconds of the first conversion.
C9_TimeRoundTrip == t_pc = "done" => t_secs2 = t_secs

\* C9 witness: the round trip was made for a time of 100 hours or more with
\* non-zero minutes and seconds.
C9_Witness ==
    /\ t_pc = "done"
    /\ t_secs >= 360000
    /\ (t_secs % 3600) \div 60 = 59
    /\ t_secs % 60 = 9

\* C10: when every candidate selector times out, the empty list included, the
\* locator raises nothing and returns None.
C10_AllTimeoutsGiveNone ==
    (\A k \in 1..Len(loc_doc) : loc_doc[k] = "absent") =>
        /\ loc_result.kind \in {"pending", "None"}
        /\ loc_result.kind = "pending" => loc_idx <= Len(loc_doc) + 1
        /\ find_element_with_multiple_selectors(loc_doc).kind = "None"

\* C10 witness: the locator returned None after querying two or more
\* candidates, each of which timed out.
C10_Witness ==
    /\ loc_result.kind = "None"
    /\ Len(loc_doc) >= 2
    /\ Len(loc_queried) = Len(loc_doc)

\* C11: safe_click makes at most max_attempts attempts; it returns True exactly
\* when the native click or a fallback of some attempt completed, and then
\* makes no further attempt (an intercepted first attempt whose JavaScript
\* click completes returns True after one attempt); it returns False only
\* after max_attempts attempts in which nothing completed.
C11_SafeClick ==
    /\ Len(click_log) <= Len(click_env)
    /\ click_result = "True" <=>
           (click_log # <<>> /\ click_log[Len(click_log)] # "none")
    /\ \A k \in 1..(Len(click_log) - 1) : click_log[k] = "none"
    /\ click_result = "False" =>
           /\ Len(click_log) = Len(click_env)
           /\ \A k \in 1..Len(click_log) : click_log[k] = "none"
    /\ (/\ click_log # <<>>
        /\ click_env[1].native = "intercepted"
        /\ click_env[1].js)
           => click_result = "True" /\ Len(click_log) = 1

\* C11 witness: of three allowed attempts only the first was made; its native
\* click was intercepted and its JavaScript click completed.
C11_Witness ==
    /\ Len(click_env) = 3
    /\ click_env[1].native = "intercepted"
    /\ click_log = <<"js">>
    /\ click_result = "True"

\* C12: download_clip_via_url opens for writing only a name that was not in the
\* download directory when it was chosen; the name is the plain one if that is
\* free, else the one with the lowest suffix _1, _2, ... that is free; and the
\* search makes at most as many steps as the directory has files.
C12_CollisionSafeNaming ==
    /\ \A k \in 1..Len(dl_written) :
          LET w == dl_written[k]
              ext == extension_of(dl_info.content_type, dl_info.url_suffix)
              plain == PlainName(dl_info.title, ext)
          IN  /\ w.name \notin w.dir
              /\ plain \notin w.dir => w.name = plain
              /\ plain \in w.dir =>
                    \E n \in 1..(Cardinality(w.dir) + 1) :
                        /\ w.name = SuffixedName(dl_info.title, n, ext)
                        /\ \A j \in 1..(n - 1) :
                              SuffixedName(dl_info.title, j, ext) \in w.dir
    /\ dl_pc # "idle" => dl_counter <= Cardinality(dl_dir) + 1
    /\ dl_result = "True" => Len(dl_written) = 1

\* C12 witness: the plain name and the names with suffixes _1 and _2 all
\* existed, and the file was written under the suffix _3.
C12_Witness ==
    /\ dl_result = "True"
    /\ Len(dl_written) = 1
    /\ Cardinality(dl_written[1].dir) = 3
    /\ dl_written[1].name = SuffixedName(dl_info.title, 3, <<".mp4">>)
    /\ dl_counter = 4

ExitPaths ==
    {"download_only", "csv", "webdriver", "modules", "navigation", "login",
     "processing", "exception", "interrupt", "completed"}

\* C13: whichever return or handler ends run, the finally block emits the final
\* summary first and then releases the browser session (driver.quit if
\* self.driver is set), and run has returned only after both.
C13_SummaryThenCleanupOnEveryExit ==
    /\ exit_code # -1 <=> exit_path \in ExitPaths
    /\ exit_path \in ExitPaths => pc \in {"finally", "cleanup", "exited"}
    /\ pc = "finally" => finale = <<>>
    /\ pc = "cleanup" => finale = <<"summary">>
    /\ pc = "exited" =>
          /\ exit_path \in ExitPaths
          /\ exit_code \in {0, 1}
          /\ finale = IF driver THEN <<"summary", "quit">> ELSE <<"summary">>
    /\ pc \notin {"finally", "cleanup", "exited"} => finale = <<>>

\* C13 witness: run was interrupted while clips were being created, and has
\* returned 1 after the summary and the release of the session.
C13_Witness ==
    /\ pc = "exited"
    /\ exit_path = "interrupt"
    /\ calls # <<>>
    /\ driver
    /\ finale = <<"summary", "quit">>
    /\ exit_code = 1

\* C14: the configuration the runner uses is the one --config-env selects:
\* ProductionConfig for production, TestingConfig for testing, otherwise
\* DevelopmentConfig; it is what get_config gives for the environment value
\* main has set.
C14_ConfigFollowsArgument ==
    cfg_pc = "running" =>
        /\ runner_config = get_config(cfg_environ)
        /\ cfg_args = S_production => runner_config = "ProductionConfig"
        /\ cfg_args = S_testing => runner_config = "TestingConfig"
        /\ cfg_args = S_development => runner_config = "DevelopmentConfig"

Did(event) == \E k \in 1..Len(cc_log) : cc_log[k] = event

Before(first, second) ==
    \E j, k \in 1..Len(cc_log) : j < k /\ cc_log[j] = first /\ cc_log[k] = second

\* C15: create_clip clicks the creation control only after it has set the
\* start value and then the end value, and reports success only with both set.
C15_CreateOnlyAfterStartThenEnd ==
    /\ Did("create_clicked") =>
          /\ Before("start_set", "end_set")
          /\ Before("end_set", "create_clicked")
    /\ cc_result = "True" => Did("start_set") /\ Did("end_set")

\* C16: after the creation action a download is triggered only for the clip of
\* that action, found by a clip count above the count from before the action;
\* the download button of a clip that was there before is never clicked.
C16_DownloadOnlyNewArtifact ==
    /\ ~Did("download_old")
    /\ Did("download_new") => current_clip_count(cc_env) > cc_env.old_clips
    /\ Did("download_new") => current_clip_count(cc_env) > initial_clip_count(cc_env)

\* C17: with navigate_to_controls set (a descriptor after the first of its
\* resource) the range is set only after navigate_to_controls opened the
\* controls and saw the range inputs; without it no controls navigation is made.
C17_RangeSettingOnlyInControlsPanel ==
    /\ (cc_env.navigate_to_controls /\ (Did("start_set") \/ Did("end_set")))
          => cc_env.controls = "opened_ready"
    /\ (cc_pc # "idle" /\ ~cc_env.navigate_to_controls)
          => ~Did("controls_true") /\ ~Did("controls_false")

Observed(event) == \E k \in 1..Len(lg_log) : lg_log[k] = event

\* C18: perform_login returns True only after the credentials were entered and
\* submitted and success was then positively observed: a logged-in indicator
\* was found or the page had left the login URL.
C18_LoginVerifiedByPositiveObservation ==
    lg_result = "True" =>
        /\ Observed("email_entered") /\ Observed("password_entered")
        /\ Observed("submit_clicked") \/ Observed("enter_sent")
        /\ Observed("indicator") \/ Observed("redirected")

Seen(event) == \E k \in 1..Len(iu_log) : iu_log[k] = event

\* C19: input_youtube_url returns True, with current_url set to the URL, only
\* if the editor was seen to load within the wait; when the wait times out it
\* returns False and current_url is what it was.
C19_UrlRecordedOnlyWhenLoaded ==
    /\ iu_result = "True" => Seen("editor_loaded") /\ iu_current_url = iu_url
    /\ (iu_pc = "returned" /\ Seen("wait_timed_out")) =>
          iu_result = "False" /\ iu_current_url = iu_before
    /\ iu_result = "False" => iu_current_url = iu_before

\* C20: a failed URL submission does not end the run: no create_clip is invoked
\* for that group, no resource is loaded (current_url is None) until the next
\* submission, every later group is still submitted, and process_all_clips
\* returns True.
C20_UrlFailureNotFatal ==
    /\ \A k \in 1..Len(submits) :
          ~submits[k].ok =>
              /\ \A c \in 1..Len(calls) : calls[c].g # submits[k].g
              /\ k = Len(submits) => current_url = NoneUrl
              /\ process_result # "False"
              /\ process_result = "True" =>
                    \A g \in (submits[k].g + 1)..Len(grouped) :
                        \E j \in 1..Len(submits) : submits[j].g = g
    /\ (submits # <<>> /\ pc \in {"download_all_clips", "finally", "cleanup", "exited"})
          => process_result = "True"

\* C20 witness: the second group's submission failed after a homepage reset,
\* the third group's clip was still created, and process_all_clips returned True.
C20_Witness ==
    /\ Len(submits) = 3
    /\ submits[1].ok /\ ~submits[2].ok /\ submits[3].ok
    /\ resets >= 1
    /\ Called(3, 1)
    /\ process_result = "True"
    /\ current_url = grouped[3].url


\* The places of nav_log where event ev of group g stands.
NavPlaces(g, ev) == {p \in 1..Len(nav_log) : nav_log[p].g = g /\ nav_log[p].ev = ev}

\* C21: a group whose URL is the loaded one gets neither a homepage reset nor a
\* URL submission before its clips; a reset followed by a submission is made
\* exactly for a group whose URL differs from a loaded one; the submission comes
\* without a reset exactly when nothing is loaded; both precede the group's clips.
C21_NavigationReuse ==
    \A g \in 1..Len(nav_before) :
        LET loaded == nav_before[g]
            url == nav_urls[g]
            R == NavPlaces(g, "reset")
            S == NavPlaces(g, "submit")
            C == NavPlaces(g, "create")
        IN  /\ loaded = url => R = {} /\ S = {}
            /\ (loaded # url /\ loaded # NoneUrl)
                  <=> /\ Cardinality(R) = 1
                      /\ Cardinality(S) = 1
                      /\ \A r \in R : \A s \in S : r < s
            /\ loaded = NoneUrl <=> (R = {} /\ Cardinality(S) = 1)
            /\ \A c \in C : \A p \in R \cup S : p < c
            /\ C # {} => (loaded = url \/ \E s \in S : nav_log[s].ok)

\* C21 witness: the first group's video was loaded and its clips were made with
\* no reset and no submission; the second group got a reset, then a submission.
C21_Witness ==
    /\ Len(nav_before) >= 2
    /\ nav_before[1] = nav_urls[1]
    /\ NavPlaces(1, "create") # {}
    /\ NavPlaces(1, "submit") = {}
    /\ NavPlaces(2, "reset") # {}
    /\ NavPlaces(2, "submit") # {}
    /\ NavPlaces(2, "create") # {}


\* The candidates an element is present for, displayed or not.
Matching(doc) == {k \in 1..Len(doc) : doc[k] \in {"present", "hidden"}}

\* C22: the candidates are queried in list order, each once; every candidate
\* queried before the last one timed out, so nothing is queried after a match;
\* an element returned is that of the lowest-indexed matching candidate; and
\* when no candidate before the first match raises, that element is returned.
C22_FirstMatchInListOrder ==
    /\ \A p \in 1..Len(loc_queried) : loc_queried[p] = p
    /\ \A p \in 1..(Len(loc_queried) - 1) : loc_doc[p] = "absent"
    /\ loc_result.kind = "element" =>
          /\ loc_result.index \in Matching(loc_doc)
          /\ \A k \in Matching(loc_doc) : loc_result.index <= k
          /\ Len(loc_queried) = loc_result.index
    /\ \A k \in Matching(loc_doc) :
          (\A j \in 1..(k - 1) : loc_doc[j] = "absent") =>
              /\ find_element_with_multiple_selectors(loc_doc)
                    = [kind |-> "element", index |-> k]
              /\ loc_result.kind \in {"pending", "element"}
              /\ Len(loc_queried) <= k

\* C22 witness: the second of three candidates matched after the first timed
\* out; its element was returned and the third candidate, which also matches,
\* was not queried.
C22_Witness ==
    /\ Len(loc_doc) = 3
    /\ loc_doc[1] = "absent"
    /\ loc_doc[2] = "present"
    /\ loc_doc[3] = "present"
    /\ loc_result = [kind |-> "element", index |-> 2]
    /\ loc_queried = <<1, 2>>


\* C23: an element the locator returns is displayed: a candidate whose match is
\* in the document but not displayed does not succeed.
C23_OnlyDisplayedElementReturned ==
    loc_result.kind = "element" => loc_doc[loc_result.index] = "present"


\* The iterations a loop may make.
TmLimit ==
    [controls_click |-> DefaultMaxAttempts, controls_check |-> ControlsChecks,
     picker_retry |-> PickerRetries, start_time |-> StartAttempts,
     end_time |-> EndAttempts, create_click |-> DefaultMaxAttempts,
     poll |-> MaxPolls]

\* C24: process_all_clips returns, whatever the page does: no retry loop makes
\* more iterations than its attempt count, the poll of fast_wait_and_download
\* makes no iteration once its timeout has elapsed, and the loops over the
\* groups and their clips come to their end.
C24_ProcessAllClipsTerminates ==
    /\ [](tm_pc \in DOMAIN TmLimit => tm_k <= TmLimit[tm_pc])
    /\ [](tm_elapsed < FastTimeout * 10 + PollSleep + 1)
    /\ <>(tm_pc = "returned")

\* C24 witness: process_all_clips returned after two groups of two clips, one
\* of whose polls ran until the timeout.
C24_Witness ==
    /\ tm_pc = "returned"
    /\ tm_sizes = <<2, 2>>
    /\ tm_timed_out


\* C25: once a KeyboardInterrupt has been raised during a clip's creation, no
\* further clip is attempted, and run returns 1 after the final summary.
C25_InterruptAbortsRun ==
    ki_interrupt_at # 0 =>
        /\ ki_calls = ki_interrupt_at
        /\ ki_pc # "process_all_clips"
        /\ ki_exit \in {-1, 1}
        /\ ki_pc = "exited" => ki_exit = 1 /\ ki_summary


\* C26: every descriptor read_csv keeps has a non-negative start, and an end
\* that is later than its start, in whole seconds.
C26_EndAfterStart ==
    \A k \in 1..Len(clips) :
        /\ convert_time_to_seconds(clips[k].start_time) >= 0
        /\ convert_time_to_seconds(clips[k].end_time)
              > convert_time_to_seconds(clips[k].start_time)


\* C27: when the report file cannot be written, download_all_clips still
\* returns success with the counts of the loop, as it does when the report is
\* written; the failure is logged and not raised.
C27_ReportFailureNotFatal ==
    (da_pc = "returned" /\ da_page = "ok" /\ da_clips # <<>>) =>
        /\ da_report = IF da_report_file = "writable" THEN "saved" ELSE "logged"
        /\ da_result = [success |-> TRUE, total_clips |-> Len(da_clips),
                        downloaded |-> downloaded_count, failed |-> failed_count]

\* C27 witness: the report could not be written after a loop that downloaded a
\* clip and failed another, and download_all_clips returned success.
C27_Witness ==
    /\ da_pc = "returned"
    /\ da_report_file = "unwritable"
    /\ da_report = "logged"
    /\ downloaded_count >= 1
    /\ failed_count >= 1
    /\ da_result.success

\* The counts made for clip c.
TallyOf(c) == {p \in 1..Len(da_tally) : da_tally[p].clip = c}

\* C28: in every successful result downloaded + failed = total_clips, and all
\* through the loop every clip it has passed was counted once, as downloaded or
\* as failed.
C28_EveryClipCountedOnce ==
    /\ \A c \in 1..(da_i - 1) : Cardinality(TallyOf(c)) = 1
    /\ downloaded_count + failed_count = da_i - 1
    /\ downloaded_count
          = Cardinality({p \in 1..Len(da_tally) : da_tally[p].as = "downloaded"})
    /\ (da_pc = "returned" /\ da_result.success) =>
          /\ da_result.downloaded + da_result.failed = da_result.total_clips
          /\ da_result.total_clips = Len(da_clips)

\* C28 witness: a successful result over three clips: one downloaded by its
\* button, one by its URL after the button failed, one failed.
C28_Witness ==
    /\ da_pc = "returned"
    /\ da_result.success
    /\ Len(da_clips) = 3
    /\ da_clips[1].download_button /\ da_clips[1].download_url
    /\ da_result.downloaded = 2
    /\ da_result.failed = 1


\* C29: all through process_all_clips no descriptor has been passed to
\* create_clip twice, clips_created and failed_clips count the calls that
\* returned True and False, and their sum does not exceed total_clips.
C29_CountersFollowCalls ==
    /\ \A k, m \in 1..Len(calls) :
          (calls[k].row = calls[m].row \/ (calls[k].g = calls[m].g /\ calls[k].i = calls[m].i))
              => k = m
    /\ stats.clips_created = Cardinality(SucceededCalls)
    /\ stats.failed_clips = Cardinality(FailedCalls)
    /\ stats.clips_created + stats.failed_clips = Len(calls)
    /\ stats.clips_created + stats.failed_clips <= stats.total_clips

\* C29 witness: process_all_clips returned after one clip was created, one
\* failed and one was never attempted.
C29_Witness ==
    /\ process_result = "True"
    /\ stats.clips_created = 1
    /\ stats.failed_clips = 1
    /\ stats.total_clips = 3
    /\ Len(calls) = 2


\* C30: with the duration picker found and the start time dealt with, when no
\* method sets the end time create_clip returns False, and it has neither
\* clicked the creation control nor clicked a download button.
C30_EndTimeFailureSkipsClip ==
    (cc_env # <<>> /\ cc_env.picker /\ cc_env.start # "raise" /\ cc_env.end = "fail") =>
        /\ ~Did("create_clicked")
        /\ ~Did("download_new")
        /\ ~Did("download_old")
        /\ ~Did("end_set")
        /\ cc_result \in {"pending", "False"}
        /\ cc_pc \notin {"create", "fast_wait_and_download", "wait_for_clip_creation",
                         "fallback_create"}

\* C30 witness: create_clip returned False after a controls navigation and a
\* start time that was set, because no method set the end time.
C30_Witness ==
    /\ cc_pc = "returned"
    /\ cc_result = "False"
    /\ cc_env.navigate_to_controls
    /\ cc_env.picker
    /\ cc_env.end = "fail"
    /\ Did("start_set")

====
